---- MODULE Spec2Model ----
(***************************************************************************)
(* Model of the Synology Chat / Claude Code executor service:              *)
(*   claude-runner.ts    runClaude, runClaudeMultiChunk, runClaudeSingle    *)
(*   context-manager.ts  ContextManager.execute and its helpers             *)
(*   context-estimator.ts, queue.ts, session-manager.ts, server.ts          *)
(*   utils/history-summarizer.ts  HistorySummarizer.summarize               *)
(*                                                                         *)
(* Texts are sequences of atoms; every atom carries the number of          *)
(* characters it stands for, so that length based code (estimate,          *)
(* needsChunking, truthiness of a string) is computed as the code does.    *)
(***************************************************************************)
EXTENDS Integers, Sequences, FiniteSets, TLC

(* ------------------------------- bounds -------------------------------- *)
MaxReqs == 3
MaxChunks == 3
MaxTurns == 2

Reqs == 1..MaxReqs

(* --------------------------- program constants -------------------------- *)
EXECUTION_TIMEOUT_MS == 300000
SEPARATOR_LEN == 5

(* ------------------------------- texts --------------------------------- *)
NoSid == 0

EmptyText == << >>

\* the response text the CLI printed for part k of request r (n characters)
OutText(r, k, n) ==
  IF n = 0 THEN EmptyText
  ELSE << [t |-> "out", r |-> r, a |-> k, b |-> 0, len |-> n] >>

\* '\n---\n'
SeparatorText == << [t |-> "sep", r |-> 0, a |-> 0, b |-> 0, len |-> SEPARATOR_LEN] >>

\* number of decimal digits of a non-negative integer (String(n).length)
RECURSIVE Digits(_)
Digits(n) == IF n < 10 THEN 1 ELSE 1 + Digits(n \div 10)

\* `\n\n[Error on chunk ${chunkNumber}/${totalChunks}]`
ErrorMarkerText(chunkNumber, totalChunks) ==
  << [t |-> "err", r |-> 0, a |-> chunkNumber, b |-> totalChunks,
      len |-> 20 + Digits(chunkNumber) + Digits(totalChunks)] >>

\* text.length
RECURSIVE TextLen(_)
TextLen(text) ==
  IF text = << >> THEN 0 ELSE Head(text).len + TextLen(Tail(text))

\* outputs.join('\n---\n')
RECURSIVE Join(_)
Join(outputs) ==
  IF outputs = << >> THEN EmptyText
  ELSE IF Len(outputs) = 1 THEN outputs[1]
  ELSE outputs[1] \o SeparatorText \o Join(Tail(outputs))

(* ------------------------------ errors --------------------------------- *)
NoError == [msg |-> "", n |-> 0]
ErrorOf(m) == [msg |-> m, n |-> 0]
\* `Chunk ${chunkNumber} failed`
ChunkFailedError(chunkNumber) == [msg |-> "Chunk failed", n |-> chunkNumber]

(* --------------------------- claude-runner.ts -------------------------- *)
\* a ClaudeRunResult; set: the promise has settled, thrown: it was rejected
NullResult ==
  [set |-> FALSE, thrown |-> FALSE, success |-> FALSE, output |-> EmptyText,
   sessionId |-> NoSid, error |-> NoError]

\* What the spawned CLI process does, as seen by runClaudeSingle:
\*   ev       "close" | "error" | "timeout": the first event to resolve the
\*            promise; "throw": spawn threw and the promise is rejected
\*   code     exit code of a close
\*   json     stdout parses as JSON
\*   len      length of parsed.result || parsed.content || stdout, or of
\*            stdout.trim() when stdout is not JSON; of stdout on failure
\*   parsedSid  parsed.session_id (NoSid: absent)
\*   stderrSid  the id matched by /Session ID: .../ on stderr (NoSid: none)
\*   stderr   stderr is non-empty
\*   dur      wall time the invocation took, in ms
ProcOutcome(ev, code, json, len, parsedSid, stderrSid, stderr, dur) ==
  [ev |-> ev, code |-> code, json |-> json, len |-> len,
   parsedSid |-> parsedSid, stderrSid |-> stderrSid, stderr |-> stderr,
   dur |-> dur]

parseClaudeOutput(r, k, o) ==
  IF o.json
  THEN [result |-> OutText(r, k, o.len), sessionId |-> o.parsedSid]
  ELSE [result |-> OutText(r, k, o.len), sessionId |-> NoSid]

\* runClaudeSingle(prompt, sessionId, ...) for part k of request r, resolved
\* by process outcome o
runClaudeSingle(r, k, sessionId, o) ==
  LET extractedSessionId == IF o.stderrSid # NoSid THEN o.stderrSid ELSE sessionId
      parsed == parseClaudeOutput(r, k, o)
  IN  IF o.ev = "throw"
      THEN [set |-> TRUE, thrown |-> TRUE, success |-> FALSE, output |-> EmptyText,
            sessionId |-> NoSid, error |-> ErrorOf("spawn threw")]
      ELSE IF o.ev = "timeout"
      THEN [set |-> TRUE, thrown |-> FALSE, success |-> FALSE, output |-> EmptyText,
            sessionId |-> NoSid, error |-> ErrorOf("Execution timeout (5 minutes)")]
      ELSE IF o.ev = "error"
      THEN [set |-> TRUE, thrown |-> FALSE, success |-> FALSE, output |-> EmptyText,
            sessionId |-> NoSid, error |-> ErrorOf("spawn error")]
      ELSE IF o.code = 0
      THEN [set |-> TRUE, thrown |-> FALSE, success |-> TRUE, output |-> parsed.result,
            sessionId |-> IF parsed.sessionId # NoSid THEN parsed.sessionId
                          ELSE extractedSessionId,
            error |-> NoError]
      ELSE [set |-> TRUE, thrown |-> FALSE, success |-> FALSE, output |-> OutText(r, k, o.len),
            sessionId |-> NoSid,
            error |-> IF o.stderr THEN ErrorOf("stderr")
                      ELSE ErrorOf("Claude exited with code")]

\* lines 97-100: outputs after the result of a part was collected
CollectOutputOfEmptyToo(outs, res) ==
  IF res.success THEN Append(outs, res.output) ELSE outs

CollectOutput(outs, res) ==
  IF res.success /\ res.output # EmptyText THEN Append(outs, res.output) ELSE outs

\* lines 102-105: currentSessionId after a part returned res
NextSessionIdKeepsCurrent(currentSessionId, res) == currentSessionId

NextSessionId(currentSessionId, res) ==
  IF res.sessionId # NoSid THEN res.sessionId ELSE currentSessionId

\* line 108: the loop is left when a part failed
StopsOnFailureNever(res) == FALSE

StopsOnFailure(res) == ~res.success

\* lines 114-116: output of the failure result
FailureOutputWithoutMarker(outs, chunkNumber, totalChunks) == Join(outs)

FailureOutput(outs, chunkNumber, totalChunks) ==
  IF Len(outs) > 0
  THEN Join(outs) \o ErrorMarkerText(chunkNumber, totalChunks)
  ELSE EmptyText

\* One iteration of the loop of runClaudeMultiChunk after the await of part
\* chunkNumber returned res (lines 97-120), and the return after the loop
\* (lines 123-128).  more: the loop goes on with the next part.
MultiChunkStep(outs, currentSessionId, chunkNumber, totalChunks, res) ==
  LET outs1 == CollectOutput(outs, res)
      sid1 == NextSessionId(currentSessionId, res)
  IN  IF res.thrown
      THEN [outputs |-> outs, currentSessionId |-> currentSessionId,
            more |-> FALSE, result |-> res]
      ELSE IF StopsOnFailure(res)
      THEN [outputs |-> outs1, currentSessionId |-> sid1, more |-> FALSE,
            result |-> [set |-> TRUE, thrown |-> FALSE, success |-> FALSE,
                        output |-> FailureOutput(outs1, chunkNumber, totalChunks),
                        sessionId |-> sid1,
                        error |-> IF res.error # NoError THEN res.error
                                  ELSE ChunkFailedError(chunkNumber)]]
      ELSE IF chunkNumber < totalChunks
      THEN [outputs |-> outs1, currentSessionId |-> sid1, more |-> TRUE,
            result |-> NullResult]
      ELSE [outputs |-> outs1, currentSessionId |-> sid1, more |-> FALSE,
            result |-> [set |-> TRUE, thrown |-> FALSE, success |-> TRUE, output |-> Join(outs1),
                        sessionId |-> sid1, error |-> NoError]]

(* ------------------------- context-estimator.ts ------------------------ *)
CONTEXT_SOFT_LIMIT == 120000
CONTEXT_HARD_LIMIT == 180000
CHARS_PER_TOKEN == 4

\* ContextEstimator.estimate, of a text of len characters
estimateRoundedDown(len) == len \div CHARS_PER_TOKEN

estimate(len) ==
  IF len = 0 THEN 0 ELSE (len + CHARS_PER_TOKEN - 1) \div CHARS_PER_TOKEN

needsSummarizationAboveOnly(totalTokens) == totalTokens > CONTEXT_SOFT_LIMIT

needsSummarization(totalTokens) == totalTokens >= CONTEXT_SOFT_LIMIT

(* ---------------------------- input-chunker ----------------------------- *)
DEFAULT_MAX_SIZE == 15000

\* InputChunker.needsChunking(text), of a text of len characters
needsChunking(len) == len > DEFAULT_MAX_SIZE

(* ------------- InputChunker.chunk (utils/history-summarizer.ts) --------- *)
\* A text to chunk is a sequence of characters; positions count from 0 as in
\* the code.  The characters that matter to the chunker: a backtick, a line
\* feed, a blank, a sentence terminator, and any other character.
Tick == "tick"
LineFeed == "lf"
Blank == "blank"
Terminator == "stop"
Plain == "plain"

\* InputChunker.needsChunking(text, maxSize), of a text of len characters
ExceedsMaxSize(len, maxSize) == len > maxSize

\* remainingText.length <= maxChunkSize
FitsWithOneMore(remaining, maxSize) == remaining <= maxSize + 1

Fits(remaining, maxSize) == remaining <= maxSize

\* text.substring(start, end) for 0 <= start <= end
substringWithoutLast(text, start, end) ==
  SubSeq(text, start + 1, (IF end > Len(text) THEN Len(text) ELSE end) - 1)

substring(text, start, end) ==
  SubSeq(text, start + 1, IF end > Len(text) THEN Len(text) ELSE end)

\* the three characters at position p are backticks
FenceAt(text, p) ==
  /\ p + 3 <= Len(text)
  /\ text[p + 1] = Tick /\ text[p + 2] = Tick /\ text[p + 3] = Tick

\* the first position at or after p where a fence marker stands (-1: none)
RECURSIVE NextFence(_, _)
NextFence(text, p) ==
  IF p + 3 > Len(text) THEN -1
  ELSE IF FenceAt(text, p) THEN p
  ELSE NextFence(text, p + 1)

\* the matches of the code block pattern (three backticks, anything, lazily,
\* three backticks) from position p on, one after the other
RECURSIVE CodeBlocksFrom(_, _)
CodeBlocksFrom(text, p) ==
  LET open == NextFence(text, p)
      close == IF open = -1 THEN -1 ELSE NextFence(text, open + 3)
  IN  IF open = -1 \/ close = -1 THEN << >>
      ELSE << [start |-> open, end |-> close + 3] >>
             \o CodeBlocksFrom(text, close + 3)

findCodeBlocks(text) == CodeBlocksFrom(text, 0)

isInsideCodeBlock(position, codeBlocks) ==
  \E i \in 1..Len(codeBlocks) :
    position > codeBlocks[i].start /\ position < codeBlocks[i].end

\* the patterns of findBestSplitPoint: /\n\n/g, /[.!?]\s/g, /\n/g
Whitespace == {Blank, LineFeed}

PatternLen(pattern) == IF pattern = "line" THEN 1 ELSE 2

\* the pattern matches at position p of text
MatchAt(text, p, pattern) ==
  /\ p + PatternLen(pattern) <= Len(text)
  /\ IF pattern = "paragraph"
     THEN text[p + 1] = LineFeed /\ text[p + 2] = LineFeed
     ELSE IF pattern = "sentence"
     THEN text[p + 1] = Terminator /\ text[p + 2] \in Whitespace
     ELSE text[p + 1] = LineFeed

\* the loop of findLastOccurrence: pattern.exec goes on after the end of the
\* match before
RECURSIVE LastOccurrenceFrom(_, _, _, _)
LastOccurrenceFrom(text, p, pattern, lastMatch) ==
  IF p + PatternLen(pattern) > Len(text) THEN lastMatch
  ELSE IF MatchAt(text, p, pattern)
       THEN LastOccurrenceFrom(text, p + PatternLen(pattern), pattern, p)
       ELSE LastOccurrenceFrom(text, p + 1, pattern, lastMatch)

findLastOccurrence(text, pattern) == LastOccurrenceFrom(text, 0, pattern, -1)

\* the start of the first code block with start < position <= end
\* (-1: undefined)
BlockStartOf(position, codeBlocks) ==
  LET hits == {i \in 1..Len(codeBlocks) :
                 position > codeBlocks[i].start /\ position <= codeBlocks[i].end}
  IN  IF hits = {} THEN -1
      ELSE codeBlocks[CHOOSE i \in hits : \A j \in hits : i <= j].start

\* the while loop of the hard split (lines 353-362)
RECURSIVE PullBack(_, _, _)
PullBack(candidateSplit, startPos, codeBlocks) ==
  IF candidateSplit > startPos /\ isInsideCodeBlock(candidateSplit, codeBlocks)
  THEN IF BlockStartOf(candidateSplit, codeBlocks) # -1
       THEN PullBack(BlockStartOf(candidateSplit, codeBlocks), startPos,
                     codeBlocks)
       ELSE candidateSplit
  ELSE candidateSplit

\* the split point a pattern offers in the window: the position after its
\* last match, -1 when it does not match or when that position is inside a
\* code block
SplitAtAnywhere(text, startPos, searchEnd, pattern, codeBlocks) ==
  LET m == findLastOccurrence(substring(text, startPos, searchEnd), pattern)
  IN  IF m = -1 THEN -1 ELSE startPos + m + PatternLen(pattern)

SplitAt(text, startPos, searchEnd, pattern, codeBlocks) ==
  LET m == findLastOccurrence(substring(text, startPos, searchEnd), pattern)
      splitPoint == startPos + m + PatternLen(pattern)
  IN  IF m # -1 /\ ~isInsideCodeBlock(splitPoint, codeBlocks)
      THEN splitPoint ELSE -1

\* Math.min(startPos + maxSize, text.length)
SearchEndBeyond(startPos, maxSize, length) ==
  IF startPos + maxSize + 1 < length THEN startPos + maxSize + 1 ELSE length

SearchEnd(startPos, maxSize, length) ==
  IF startPos + maxSize < length THEN startPos + maxSize ELSE length

\* findBestSplitPoint: the position to split at, and the priority that gave it
findBestSplitPoint(text, startPos, maxSize, codeBlocks) ==
  LET searchEnd == SearchEnd(startPos, maxSize, Len(text))
      paragraph == SplitAt(text, startPos, searchEnd, "paragraph", codeBlocks)
      sentence == SplitAt(text, startPos, searchEnd, "sentence", codeBlocks)
      line == SplitAt(text, startPos, searchEnd, "line", codeBlocks)
  IN  IF paragraph # -1 THEN [point |-> paragraph, by |-> "paragraph"]
      ELSE IF sentence # -1 THEN [point |-> sentence, by |-> "sentence"]
      ELSE IF line # -1 THEN [point |-> line, by |-> "line"]
      ELSE [point |-> PullBack(searchEnd, startPos, codeBlocks), by |-> "hard"]

\* the code block that starts at position (codeBlocks.find), as a one-element
\* sequence; empty when there is none
CodeBlockAt(position, codeBlocks) ==
  SelectSeq(codeBlocks, LAMBDA cb : cb.start = position)

(* --------------------------- context-manager.ts ------------------------- *)
RECENT_SUMMARIZATION_MS == 60000
TOKENS_PER_MESSAGE == 500
ISO_DATE_LEN == 24
SUMMARY_FIXED_LEN == 66

NoSummary == [set |-> FALSE, at |-> 0, from |-> 0, to |-> 0]
NoTime == -1

\* `Session summarized at ${ISO}. Previous context reduced from ${from} to
\* ${to} tokens.`: its length
SummaryLen(s) ==
  IF s.set THEN SUMMARY_FIXED_LEN + ISO_DATE_LEN + Digits(s.from) + Digits(s.to)
  ELSE 0

NullContext ==
  [estimated_tokens |-> 0, needs_summarization |-> FALSE,
   conversation_summary |-> NoSummary, last_summarization |-> NoTime,
   chunk_count |-> 0]

\* the object initializeContextState builds for a session without context_state
FreshContext(message_count) ==
  [estimated_tokens |-> message_count * TOKENS_PER_MESSAGE,
   needs_summarization |-> FALSE,
   conversation_summary |-> NoSummary, last_summarization |-> NoTime,
   chunk_count |-> 0]

\* Math.floor(estimated_tokens * 0.3)
ReducedTokens(estimated_tokens) == (3 * estimated_tokens) \div 10

\* performSummarization: the ContextState it leaves in place of c at time t
performSummarizationSkipped(c, t) == c

performSummarization(c, t) ==
  [c EXCEPT !.conversation_summary =
              [set |-> TRUE, at |-> t, from |-> c.estimated_tokens,
               to |-> ReducedTokens(c.estimated_tokens)],
            !.last_summarization = t,
            !.estimated_tokens = ReducedTokens(c.estimated_tokens),
            !.needs_summarization = FALSE]

\* Step 6 of ContextManager.execute: the ContextState it leaves in place of c
\* when runClaude returned res at time t (res is a result, not a thrown error)
UpdateContextState(c, res, newPromptTokens, t) ==
  IF res.success /\ res.output # EmptyText
  THEN LET responseTokens == estimate(TextLen(res.output))
           isRecentSummarization ==
             /\ c.conversation_summary.set
             /\ c.last_summarization # NoTime
             /\ t - c.last_summarization < RECENT_SUMMARIZATION_MS
           tokens ==
             IF isRecentSummarization
             THEN estimate(SummaryLen(c.conversation_summary))
                    + newPromptTokens + responseTokens
             ELSE c.estimated_tokens + newPromptTokens + responseTokens
       IN  [c EXCEPT !.estimated_tokens = tokens,
                     !.needs_summarization = needsSummarization(tokens)]
  ELSE c

(* -------------------------- session-manager.ts -------------------------- *)
SESSION_TIMEOUT_MS == 1800000
NumSessions == 2
SessionIds == 1..NumSessions

\* SessionData objects live on a heap: the cache, the handlers' locals and
\* ContextManager.execute share them by reference.  Request r allocates
\* object r in create and object MaxReqs + r in update.
NoRef == 0
SessRefs == 1..(2 * MaxReqs)
CtxRefs == Reqs

NullSession ==
  [session_id |-> 0, claude_session_id |-> NoSid, last_activity |-> 0,
   message_count |-> 0, context_state |-> NoRef]

(* ------------------- bridge/session-manager (SQLite) -------------------- *)
BRIDGE_SESSION_TIMEOUT_MS == 1800000
ARCHIVE_AFTER_MS == 86400000

\* no row for the session id; null
NoRow ==
  [id |-> "", claude_session_id |-> NoSid, last_activity |-> 0,
   message_count |-> 0, status |-> "none"]

\* BridgeSessionManager.get at time t on row r: the row it leaves and what
\* it returns
BridgeGet(r, t) ==
  IF r = NoRow THEN [row |-> r, result |-> NoRow]
  ELSE IF t - r.last_activity > BRIDGE_SESSION_TIMEOUT_MS
       THEN [row |-> [r EXCEPT !.status = "stale"], result |-> NoRow]
       ELSE [row |-> r, result |-> r]

\* getOrCreate(sessionId): the row get returned or the row it inserts
BridgeGetOrCreate(r, id, t) ==
  LET existing == BridgeGet(r, t)
      fresh == [id |-> id, claude_session_id |-> NoSid, last_activity |-> t,
                message_count |-> 0, status |-> "active"]
  IN  IF existing.result # NoRow THEN existing
      ELSE [row |-> fresh, result |-> fresh]

\* update(sessionId, claudeSessionId)
BridgeUpdate(r, csid, t) ==
  IF r = NoRow THEN r
  ELSE [r EXCEPT !.claude_session_id = csid, !.last_activity = t,
                 !.message_count = @ + 1, !.status = "active"]

\* touch(sessionId)
BridgeTouch(r, t) ==
  IF r = NoRow THEN r ELSE [r EXCEPT !.last_activity = t]

\* cleanup(): the two statements
BridgeCleanup(r, t) ==
  LET marked == IF /\ r # NoRow
                   /\ r.last_activity < t - BRIDGE_SESSION_TIMEOUT_MS
                   /\ r.status = "active"
                THEN [r EXCEPT !.status = "stale"] ELSE r
  IN  IF /\ marked # NoRow
         /\ marked.last_activity < t - ARCHIVE_AFTER_MS
         /\ marked.status = "stale"
      THEN NoRow ELSE marked

\* count()
BridgeCount(r) == IF r # NoRow /\ r.status = "active" THEN 1 ELSE 0

\* no file of the session in SESSIONS_DIR; no writeFile awaited
NoFile == NullSession

(* -------------------------------- queue.ts ------------------------------ *)
maxConcurrent == 2

(* ----------------------- utils/history-summarizer.ts -------------------- *)
RECENT_MESSAGE_COUNT == 5
MAX_SUMMARIZABLE_MESSAGES == 20
MESSAGE_OVERHEAD_TOKENS == 10
SUMMARY_PROMPT_LEN == 150
FALLBACK_FIXED_LEN == 43
DEFAULT_SUMMARY_FIXED_LEN == 91

\* a Message: content is a text, timestamp 0 stands for an absent timestamp
Message(role, content, timestamp) ==
  [role |-> role, content |-> content, timestamp |-> timestamp]

\* messages.slice(start, end), start and end counted from 0, end excluded
Slice(messages, start, end) == SubSeq(messages, start + 1, end)

\* messages.slice(-RECENT_MESSAGE_COUNT), of more than 5 messages
RecentOfOldest(messages) == Slice(messages, 0, RECENT_MESSAGE_COUNT)

RecentOf(messages) ==
  Slice(messages, Len(messages) - RECENT_MESSAGE_COUNT, Len(messages))

getMessagesToSummarizeNone(messages) == << >>

getMessagesToSummarizeTwentyBeforeTail(messages) ==
  LET last == Len(messages) - RECENT_MESSAGE_COUNT
  IN  IF last > MAX_SUMMARIZABLE_MESSAGES
      THEN Slice(messages, last - MAX_SUMMARIZABLE_MESSAGES, last)
      ELSE Slice(messages, 0, last)

getMessagesToSummarizeAllOlder(messages) ==
  Slice(messages, 0, Len(messages) - RECENT_MESSAGE_COUNT)

getMessagesToSummarize(messages) ==
  LET totalMessages == Len(messages)
  IN  IF totalMessages > MAX_SUMMARIZABLE_MESSAGES
      THEN Slice(messages, totalMessages - MAX_SUMMARIZABLE_MESSAGES,
                 totalMessages - RECENT_MESSAGE_COUNT)
      ELSE Slice(messages, 0, totalMessages - RECENT_MESSAGE_COUNT)

RECURSIVE calculateTotalTokens(_)
calculateTotalTokens(messages) ==
  IF messages = << >> THEN 0
  ELSE estimate(TextLen(Head(messages).content)) + MESSAGE_OVERHEAD_TOKENS
         + calculateTotalTokens(Tail(messages))

\* the length of messages.map(`${role}: ${content}`).join('\n\n')
RECURSIVE FormattedLen(_)
FormattedLen(messages) ==
  IF messages = << >> THEN 0
  ELSE (IF Head(messages).role = "user" THEN 4 ELSE 9) + 2
         + TextLen(Head(messages).content)
         + (IF Len(messages) > 1 THEN 2 ELSE 0)
         + FormattedLen(Tail(messages))

\* the one message generateSummary hands to the runner: the prompt made of
\* the instruction and the formatted messages
SummaryRequest(messages) ==
  << Message("user",
             << [t |-> "prompt", r |-> 0, a |-> Head(messages).timestamp,
                 b |-> Len(messages),
                 len |-> SUMMARY_PROMPT_LEN + FormattedLen(messages)] >>,
             0) >>

RECURSIVE TotalChars(_)
TotalChars(messages) ==
  IF messages = << >> THEN 0
  ELSE TextLen(Head(messages).content) + TotalChars(Tail(messages))

\* what defaultClaudeRunner resolves with
defaultClaudeRunner(messages) ==
  << [t |-> "default", r |-> 0, a |-> Len(messages), b |-> TotalChars(messages),
      len |-> DEFAULT_SUMMARY_FIXED_LEN + Digits(Len(messages))
                + Digits(TotalChars(messages))] >>

\* `Previous conversation: ${n} messages exchanged.`
FallbackSummary(n) ==
  << [t |-> "fallback", r |-> 0, a |-> n, b |-> 0,
      len |-> FALLBACK_FIXED_LEN + Digits(n)] >>

\* the catch of generateSummary (lines 152-156): what generateSummary settles
\* with when the runner rejected
OnRunnerFailureRethrows(messages) == [thrown |-> TRUE, summary |-> EmptyText]

OnRunnerFailure(messages) ==
  [thrown |-> FALSE, summary |-> FallbackSummary(Len(messages))]

\* generateSummary after the runner settled with o (ok: it resolved with text)
generateSummary(messages, o) ==
  IF o.ok THEN [thrown |-> FALSE, summary |-> o.text]
  ELSE OnRunnerFailure(messages)

\* summaryTokens + recentTokens (lines 91-94)
reducedTokensOfRecent(summary, recent) == calculateTotalTokens(recent)

reducedTokens(summary, recent) ==
  estimate(TextLen(summary)) + calculateTotalTokens(recent)

NullSummarization ==
  [set |-> FALSE, thrown |-> FALSE, summary |-> EmptyText,
   recentMessages |-> << >>, originalTokens |-> 0, reducedTokens |-> 0]

SummarizationResult(summary, recent, original, reduced) ==
  [set |-> TRUE, thrown |-> FALSE, summary |-> summary,
   recentMessages |-> recent, originalTokens |-> original,
   reducedTokens |-> reduced]

\* what summarize returns for 1 to 5 messages (lines 65-73)
UnsummarizedWithoutTokens(messages) ==
  SummarizationResult(EmptyText, messages, calculateTotalTokens(messages), 0)

Unsummarized(messages) ==
  SummarizationResult(EmptyText, messages, calculateTotalTokens(messages),
                      calculateTotalTokens(messages))

\* summarize rejected: its caller gets no result
SummarizationRejected ==
  [set |-> TRUE, thrown |-> TRUE, summary |-> EmptyText,
   recentMessages |-> << >>, originalTokens |-> 0, reducedTokens |-> 0]

(* ------------------- bridge/src/synology-client.ts ---------------------- *)
\* A text is a sequence of paragraphs (separated by two line feeds), a
\* paragraph a sequence of lines, a line [plain, blocks]: the number of its
\* characters outside code blocks and the lengths of its code blocks. A
\* string the chunker handles is a piece [raw, full, code]: its length with
\* the placeholders in, its length with the code blocks in, and the lengths
\* of its code blocks. The lines of the texts are not empty and hold no
\* white space, so that trim() removes nothing.
MAX_MESSAGE_LENGTH == 3500
\* the length of __CODE_BLOCK_i__ for i < 10
PLACEHOLDER_LEN == 16
\* the brackets, the slash and the blank of an indicator
INDICATOR_FIXED_LEN == 4

\* the webhook requests the bridge receives
MaxHooks == 2
Hooks == 1..MaxHooks

\* payload.user_id of the users of the chat
UserIds == {"u1", "u2"}
BridgeUser == "u1"

\* a queued message: part k of the n chunks of the text that the handler of
\* request hook sends as its nth message
NoMessage == [hook |-> 0, nth |-> 0, part |-> 0, of |-> 0]

NoPiece == [raw |-> 0, full |-> 0, code |-> << >>]

RECURSIVE SumLens(_)
SumLens(ls) == IF ls = << >> THEN 0 ELSE Head(ls) + SumLens(Tail(ls))

PieceOfLine(l) ==
  [raw |-> l.plain + PLACEHOLDER_LEN * Len(l.blocks),
   full |-> l.plain + SumLens(l.blocks),
   code |-> l.blocks]

\* a + sep + b, sep given by its length
Concat(a, sep, b) ==
  [raw |-> a.raw + sep + b.raw,
   full |-> a.full + sep + b.full,
   code |-> a.code \o b.code]

\* current + (current ? sep : '') + piece
Extend(current, sep, piece) ==
  IF current.raw > 0 THEN Concat(current, sep, piece) ELSE piece

RECURSIVE JoinPieces(_, _)
JoinPieces(ps, sep) ==
  IF ps = << >> THEN NoPiece
  ELSE IF Len(ps) = 1 THEN ps[1]
  ELSE Concat(ps[1], sep, JoinPieces(Tail(ps), sep))

PieceOfPara(para) ==
  JoinPieces([i \in 1..Len(para) |-> PieceOfLine(para[i])], 1)

PieceOfText(t) ==
  JoinPieces([i \in 1..Len(t) |-> PieceOfPara(t[i])], 2)

\* if (current) chunks.push(current.trim())
PushCurrent(st) ==
  IF st.current.raw > 0 THEN Append(st.chunks, st.current) ELSE st.chunks

\* (current + line).length > MAX_MESSAGE_LENGTH
Exceeds(current, piece) == current.raw + piece.raw > MAX_MESSAGE_LENGTH

\* the loop over the lines of a paragraph that is too long
RECURSIVE AddLines(_, _, _)
AddLines(st, para, i) ==
  IF i > Len(para) THEN st
  ELSE LET line == PieceOfLine(para[i])
       IN  AddLines(IF Exceeds(st.current, line)
                    THEN [chunks |-> PushCurrent(st), current |-> line]
                    ELSE [chunks |-> st.chunks,
                          current |-> Extend(st.current, 1, line)],
                    para, i + 1)

\* the loop over the paragraphs
RECURSIVE AddParas(_, _, _)
AddParas(st, t, i) ==
  IF i > Len(t) THEN st
  ELSE LET para == PieceOfPara(t[i])
       IN  AddParas(
             IF para.raw > MAX_MESSAGE_LENGTH
             THEN AddLines([chunks |-> PushCurrent(st), current |-> NoPiece],
                           t[i], 1)
             ELSE IF st.current.raw + 2 + para.raw > MAX_MESSAGE_LENGTH
             THEN [chunks |-> PushCurrent(st), current |-> para]
             ELSE [chunks |-> st.chunks,
                   current |-> Extend(st.current, 2, para)],
             t, i + 1)

chunkTextContent(t) ==
  IF PieceOfText(t).raw <= MAX_MESSAGE_LENGTH THEN << PieceOfText(t) >>
  ELSE PushCurrent(AddParas([chunks |-> << >>, current |-> NoPiece], t, 1))

\* the length of [i/n] and its blank
IndicatorLen(i, n) == INDICATOR_FIXED_LEN + Digits(i) + Digits(n)

\* chunkMessage: the code blocks become placeholders, the text is chunked,
\* the code blocks are put back, and more than one chunk get indicators;
\* a chunk is [indicator, content, raw, code]
chunkMessage(t) ==
  LET rawChunks == chunkTextContent(t)
      n == Len(rawChunks)
  IN  [i \in 1..n |->
         [indicator |-> IF n > 1 THEN IndicatorLen(i, n) ELSE 0,
          content |-> rawChunks[i].full,
          raw |-> rawChunks[i].raw,
          code |-> rawChunks[i].code]]

(* -------------------------------- state -------------------------------- *)
VARIABLES
  now,               \* Date.now()
  cache,             \* SessionManager.cache: session id -> SessionData object
  sessObj,           \* the SessionData objects
  ctxObj,            \* the ContextState objects
  running,           \* Queue.running
  queue,             \* Queue.queue
  pc,                \* where each /execute request stands
  body,              \* the request body: session_id, prompt
  session,           \* POST /execute: session
  contextState,      \* ContextManager.execute: contextState
  newPromptTokens,   \* ContextManager.execute: newPromptTokens
  executeResult,     \* what ContextManager.execute returned
  chunks,            \* runClaude: chunks.length (0: chunks undefined)
  chunkNumber,       \* runClaudeMultiChunk: i + 1
  outputs,           \* runClaudeMultiChunk: outputs
  currentSessionId,  \* runClaudeMultiChunk: currentSessionId
  result,            \* what runClaude resolved with
  initialSessionId,  \* runClaudeMultiChunk: initialSessionId
  invoked,           \* log: the calls of runClaudeSingle, [part, sid]
  returned,          \* log: the results those calls resolved with
  priorState,        \* log: the ContextState execute started from
  priorGiven,        \* log: execute was handed session.context_state
  compacted,         \* log: performSummarization ran in this turn
  sumPc,             \* where the call of HistorySummarizer.summarize stands
  messages,          \* summarize: messages
  claudeRunner,      \* summarize: "custom", or "default" when undefined
  recentMessages,    \* summarize: recentMessages
  messagesToSummarize, \* summarize: messagesToSummarize
  originalTokens,    \* summarize: originalTokens
  summaryRequest,    \* log: the messages each call of the runner was handed
  runnerSettled,     \* log: what each call of the runner settled with
  summarization,     \* what summarize settled with
  chunkPc,           \* where the call of InputChunker.chunk stands
  text,              \* chunk: text
  maxChunkSize,      \* chunk: maxChunkSize
  preserveCodeBlocks, \* chunk: preserveCodeBlocks
  codeBlocks,        \* chunk: codeBlocks
  textChunks,        \* chunk: chunks
  currentPosition,   \* chunk: currentPosition
  splits,            \* log: where each chunk starts and ends, and what ended it
  estimateArgs,      \* the lengths of the texts estimate is called with
  estimateResults,   \* what the calls of estimate returned, in order
  deleted,           \* log: how often each session was deleted (reset, expiry)
  arrivedAfter,      \* log: how often its session had been deleted when a
                     \* request got its session from get or create
  outText,           \* chunkMessage: text
  outChunks,         \* what chunkMessage returned
  outDone,           \* chunkMessage has returned
  clock,             \* Date.now() of the bridge
  messageQueue,      \* SynologyClient.messageQueue
  processing,        \* SynologyClient.processing
  lastRequest,       \* RateLimiter.lastRequest
  requestHistory,    \* RateLimiter.requestHistory
  sendPc,            \* where processQueue is
  sending,           \* processQueue: message
  wakeAt,            \* when the timer processQueue waits for is due
  posts,             \* log: the last two POSTs to the incoming webhook
  hpc,               \* where each POST /webhook handler is
  command,           \* POST /webhook: command
  drainer,           \* the handler whose sendMessage awaits processQueue
  forwarded,         \* log: executor.execute was called for the request
  replied,           \* log: sendMessage was called for the request
  proc,              \* runClaudeSingle: the spawned process
  sessionIdArg,      \* runClaudeSingle: sessionId
  timeoutArmed,      \* runClaudeSingle: the timeout is set and not cleared
  procElapsed,       \* ms since the process was spawned
  promise,           \* what the promise of runClaudeSingle settled with
  resolves,          \* log: how often resolve was called
  fired,             \* log: the timeout handler ran
  accepted,          \* log: when the requests of each user were accepted
  handled,           \* log: the last request the rate limits were applied to
  arrivals,          \* log: how many requests were received
  waited,            \* log: the task was put in the queue before it was started
  loops,             \* log: the calls of processQueue that have not returned
  enqueued,          \* log: the chunks in the order sendMessage queued them
  disk,              \* the session files in SESSIONS_DIR
  writing,           \* the writeFile each handler awaits: the JSON it writes
  unlinks,           \* the calls of unlink that have not settled, per session
  restarted,         \* log: the service was started again and loaded the files
  row,               \* the row of the session in the table sessions of the bridge
  got,               \* what the last call of get or getOrCreate returned
  ticks              \* log: how often time has passed between the calls

runVars ==
  << chunks, chunkNumber, outputs, currentSessionId, result,
     initialSessionId, invoked, returned >>
execVars == << contextState, newPromptTokens, executeResult, priorState,
               priorGiven, compacted >>
storeVars == << cache, sessObj >>
queueVars == << running, queue >>
sumVars == << sumPc, messages, claudeRunner, recentMessages,
             messagesToSummarize, originalTokens, summaryRequest,
             runnerSettled, summarization >>
serverVars ==
  << now, cache, sessObj, ctxObj, running, queue, pc, body, session,
     contextState, newPromptTokens, executeResult, chunks, chunkNumber,
     outputs, currentSessionId, result, initialSessionId, invoked,
     returned, priorState, priorGiven, compacted >>
chunkVars == << chunkPc, text, maxChunkSize, preserveCodeBlocks, codeBlocks,
               textChunks, currentPosition, splits >>
estVars == << estimateArgs, estimateResults >>
lifeVars == << deleted, arrivedAfter >>
outVars == << outText, outChunks, outDone >>
bridgeVars == << clock, messageQueue, processing, lastRequest, requestHistory,
                sendPc, sending, wakeAt, posts, hpc, command, drainer,
                forwarded, replied >>
singleVars == << proc, sessionIdArg, timeoutArmed, procElapsed, promise,
                 resolves, fired >>
limitVars == << accepted, handled, arrivals >>
taskVars == << waited >>
deliveryVars == << loops, enqueued >>
diskVars == << disk, writing, unlinks, restarted >>
sessVars == << row, got, ticks >>
vars == << serverVars, sumVars, chunkVars, estVars, lifeVars, outVars,
           bridgeVars, singleVars, limitVars, taskVars, deliveryVars,
           diskVars, sessVars >>

NoPrompt == [len |-> 0, nchunks |-> 0]
NullExecuteResult ==
  [set |-> FALSE, success |-> FALSE, output |-> EmptyText, sessionId |-> NoSid,
   error |-> NoError, contextState |-> NoRef]

\* the state of the service after construction, no request received yet
InitCommon ==
  /\ now = 0
  /\ cache = [s \in SessionIds |-> NoRef]
  /\ sessObj = [x \in SessRefs |-> NullSession]
  /\ ctxObj = [x \in CtxRefs |-> NullContext]
  /\ running = 0
  /\ queue = << >>
  /\ body = [r \in Reqs |-> [session_id |-> 0, prompt |-> NoPrompt]]
  /\ session = [r \in Reqs |-> NoRef]
  /\ contextState = [r \in Reqs |-> NoRef]
  /\ newPromptTokens = [r \in Reqs |-> 0]
  /\ executeResult = [r \in Reqs |-> NullExecuteResult]
  /\ chunkNumber = [r \in Reqs |-> 0]
  /\ outputs = [r \in Reqs |-> << >>]
  /\ currentSessionId = [r \in Reqs |-> NoSid]
  /\ result = [r \in Reqs |-> NullResult]
  /\ invoked = [r \in Reqs |-> << >>]
  /\ returned = [r \in Reqs |-> << >>]
  /\ priorState = [r \in Reqs |-> NullContext]
  /\ priorGiven = [r \in Reqs |-> FALSE]
  /\ compacted = [r \in Reqs |-> FALSE]

\* no session was deleted
NothingDeleted ==
  /\ deleted = [s \in SessionIds |-> 0]
  /\ arrivedAfter = [r \in Reqs |-> 0]

\* SynologyClient.chunkMessage is not called on its own
OutputIdle ==
  /\ outText = << >>
  /\ outChunks = << >>
  /\ outDone = FALSE

\* the state of the bridge after construction, at time t
BridgeStarted(t) ==
  /\ clock = t
  /\ messageQueue = << >>
  /\ processing = FALSE
  /\ lastRequest = [global |-> 0, synology_outgoing |-> 0]
  /\ requestHistory = [u \in UserIds |-> << >>]
  /\ sendPc = "idle"
  /\ sending = NoMessage
  /\ wakeAt = 0
  /\ posts = << >>
  /\ hpc = [w \in Hooks |-> "idle"]
  /\ command = [w \in Hooks |-> [kind |-> "none", tokenOk |-> FALSE]]
  /\ drainer = 0
  /\ forwarded = [w \in Hooks |-> FALSE]
  /\ replied = [w \in Hooks |-> FALSE]

\* runClaudeSingle is not followed event by event
SingleIdle ==
  /\ proc = "none"
  /\ sessionIdArg = NoSid
  /\ timeoutArmed = FALSE
  /\ procElapsed = 0
  /\ promise = NullResult
  /\ resolves = 0
  /\ fired = FALSE

\* no request: the entry of the log before the first request
NoRequest ==
  [user |-> "", at |-> 0, tokenOk |-> FALSE, empty |-> FALSE, globalOk |-> FALSE,
   recent |-> 0, admission |-> "none"]

\* no webhook request is followed through the rate limits alone
LimiterIdle ==
  /\ accepted = [u \in UserIds |-> << >>]
  /\ handled = NoRequest
  /\ arrivals = 0

\* the queue is not followed on its own
TasksIdle ==
  /\ waited = [r \in Reqs |-> FALSE]

\* no message was handed to sendMessage
DeliveryIdle ==
  /\ loops = 0
  /\ enqueued = << >>

\* no session file exists and no file operation is in flight
DiskIdle ==
  /\ disk = [s \in SessionIds |-> NoFile]
  /\ writing = [r \in Reqs |-> NoFile]
  /\ unlinks = [s \in SessionIds |-> 0]
  /\ restarted = FALSE

\* the table sessions of the bridge is empty
SessionsIdle ==
  /\ row = NoRow
  /\ got = NoRow
  /\ ticks = 0

\* the bridge receives nothing
BridgeIdle == OutputIdle /\ BridgeStarted(0)

\* ContextEstimator.estimate is not called on its own
EstimatorIdle ==
  /\ estimateArgs = << >>
  /\ estimateResults = << >>

\* InputChunker.chunk has not been called
ChunkerIdle ==
  /\ chunkPc = "idle"
  /\ text = << >>
  /\ maxChunkSize = DEFAULT_MAX_SIZE
  /\ preserveCodeBlocks = TRUE
  /\ codeBlocks = << >>
  /\ textChunks = << >>
  /\ currentPosition = 0
  /\ splits = << >>

\* HistorySummarizer.summarize has not been called
SummarizerIdle ==
  /\ sumPc = "idle"
  /\ messages = << >>
  /\ claudeRunner = "default"
  /\ recentMessages = << >>
  /\ messagesToSummarize = << >>
  /\ originalTokens = 0
  /\ summaryRequest = << >>
  /\ runnerSettled = << >>
  /\ summarization = NullSummarization

\* the catch around runClaude (lines 96-103): what execute returns when
\* runClaude rejected with res.error
ExecuteCatchRethrows(res, cref) ==
  [NullExecuteResult EXCEPT !.error = res.error]

ExecuteCatch(res, cref) ==
  [set |-> TRUE, success |-> FALSE, output |-> EmptyText, sessionId |-> NoSid,
   error |-> res.error, contextState |-> cref]

\* Step 7 (lines 136-142): what execute returns when runClaude resolved
ExecuteReturn(res, cref) ==
  [set |-> TRUE, success |-> res.success, output |-> res.output,
   sessionId |-> res.sessionId, error |-> res.error, contextState |-> cref]

\* synchronous code runs to completion: while a request stands between the
\* start of its task and its first await on the CLI process, no I/O event
\* (a request, a process exit, a finished write) is handled
Quiet == \A q \in Reqs : pc[q] \notin {"start", "sized"}

(* ----------------------- runClaude (claude-runner.ts) ------------------- *)
\* runClaude(options) up to the first await: the call of runClaudeSingle for
\* the prompt (n = 0) or for the first of n chunks
RunDispatch(r, n, sid) ==
  /\ chunks' = [chunks EXCEPT ![r] = n]
  /\ chunkNumber' = [chunkNumber EXCEPT ![r] = 1]
  /\ outputs' = [outputs EXCEPT ![r] = << >>]
  /\ currentSessionId' = [currentSessionId EXCEPT ![r] = sid]
  /\ initialSessionId' = [initialSessionId EXCEPT ![r] = sid]
  /\ invoked' = [invoked EXCEPT ![r] = << [part |-> 1, sid |-> sid] >>]
  /\ returned' = [returned EXCEPT ![r] = << >>]
  /\ result' = [result EXCEPT ![r] = NullResult]

\* the caller of runClaude in isolation
RunCall(r) ==
  /\ pc[r] = "call"
  /\ RunDispatch(r, chunks[r], initialSessionId[r])
  /\ pc' = [pc EXCEPT ![r] = "await"]
  /\ UNCHANGED << now, storeVars, ctxObj, queueVars, body, session, execVars,
                  sumVars, chunkVars, estVars, lifeVars,
                  outVars, bridgeVars, singleVars, limitVars, taskVars,
                  deliveryVars, diskVars, sessVars >>

\* the CLI process of the part in flight settles with outcome o: the await in
\* runClaudeMultiChunk (or in runClaude) resumes
ChunkReturn(r, o) ==
  /\ pc[r] = "await"
  /\ Quiet
  /\ LET k == chunkNumber[r]
         res == runClaudeSingle(r, k, currentSessionId[r], o)
         step == IF chunks[r] = 0
                 THEN [outputs |-> outputs[r],
                       currentSessionId |-> currentSessionId[r],
                       more |-> FALSE, result |-> res]
                 ELSE MultiChunkStep(outputs[r], currentSessionId[r], k,
                                     chunks[r], res)
     IN  /\ now' = now + o.dur
         /\ returned' = [returned EXCEPT ![r] = Append(@, res)]
         /\ outputs' = [outputs EXCEPT ![r] = step.outputs]
         /\ currentSessionId' =
              [currentSessionId EXCEPT ![r] = step.currentSessionId]
         /\ IF step.more
            THEN /\ chunkNumber' = [chunkNumber EXCEPT ![r] = k + 1]
                 /\ invoked' = [invoked EXCEPT ![r] =
                      Append(@, [part |-> k + 1, sid |-> step.currentSessionId])]
                 /\ UNCHANGED << result, pc >>
            ELSE /\ result' = [result EXCEPT ![r] = step.result]
                 /\ pc' = [pc EXCEPT ![r] = "ran"]
                 /\ UNCHANGED << chunkNumber, invoked >>
  /\ UNCHANGED << storeVars, ctxObj, queueVars, body, session, execVars,
                  chunks, initialSessionId, sumVars, chunkVars, estVars, lifeVars,
                  outVars, bridgeVars, singleVars, limitVars, taskVars,
                  deliveryVars, diskVars, sessVars >>

(* ------------------------ POST /execute (server.ts) --------------------- *)
\* requestQueue.add(task) for request r, seen from the queue: the task
\* starts at once when a slot is free, else it waits in the queue
HasFreeSlotAtLimit(n) == n <= maxConcurrent

\* the test of add and of processNext: this.running < this.maxConcurrent
HasFreeSlot(n) == n < maxConcurrent

\* Queue.processNext with n tasks running and q waiting: next is the task
\* it starts (0: none)
ProcessNextStartsNone(n, q) == [running |-> n, queue |-> q, next |-> 0]

ProcessNext(n, q) ==
  IF q # << >> /\ HasFreeSlot(n)
  THEN [running |-> n + 1, queue |-> Tail(q), next |-> Head(q)]
  ELSE [running |-> n, queue |-> q, next |-> 0]

QueueAdd(r) ==
  IF HasFreeSlot(running)
  THEN /\ running' = running + 1
       /\ pc' = [pc EXCEPT ![r] = "start"]
       /\ UNCHANGED queue
  ELSE /\ queue' = Append(queue, r)
       /\ pc' = [pc EXCEPT ![r] = "queued"]
       /\ UNCHANGED running

\* A request for session s with prompt p arrives, gap ms after the last
\* event; csid is the claude_session_id of its body (NoSid: none).
\* sessionManager.get (with its expiry check) and create, the adoption of
\* the client's claude_session_id, requestQueue.add.
Arrive(r, s, csid, p, gap) ==
  /\ pc[r] = "idle"
  /\ \A q \in Reqs : q < r => pc[q] # "idle"
  /\ Quiet
  /\ LET t == now + gap
         cur == cache[s]
         expired == /\ cur # NoRef
                    /\ t - sessObj[cur].last_activity > SESSION_TIMEOUT_MS
         found == cur # NoRef /\ ~expired
         ref == IF found THEN cur ELSE r
         obj0 == IF found THEN sessObj[cur]
                 ELSE [session_id |-> s, claude_session_id |-> NoSid,
                       last_activity |-> t, message_count |-> 0,
                       context_state |-> NoRef]
         obj1 == IF csid # NoSid /\ obj0.claude_session_id = NoSid
                 THEN [obj0 EXCEPT !.claude_session_id = csid] ELSE obj0
     IN  /\ now' = t
         /\ sessObj' = [sessObj EXCEPT ![ref] = obj1]
         /\ cache' = [cache EXCEPT ![s] = ref]
         /\ session' = [session EXCEPT ![r] = ref]
         /\ body' = [body EXCEPT ![r] = [session_id |-> s, prompt |-> p]]
         /\ deleted' = IF expired THEN [deleted EXCEPT ![s] = @ + 1]
                        ELSE deleted
         /\ arrivedAfter' =
              [arrivedAfter EXCEPT ![r] = deleted[s] + IF expired THEN 1 ELSE 0]
  /\ QueueAdd(r)
  /\ UNCHANGED << ctxObj, execVars, runVars, sumVars, chunkVars, estVars,
                  outVars, bridgeVars, singleVars, limitVars, taskVars,
                  deliveryVars, diskVars, sessVars >>

\* ContextManager.execute, steps 1-3: initializeContextState, the sizing of
\* the turn and, at or above the soft limit, performSummarization
ExecuteSize(r) ==
  /\ pc[r] = "start"
  /\ LET so == sessObj[session[r]]
         given == so.context_state # NoRef
         cref == IF given THEN so.context_state ELSE r
         c0 == IF given THEN ctxObj[cref] ELSE FreshContext(so.message_count)
         npt == estimate(body[r].prompt.len)
         totalTokens == c0.estimated_tokens + npt
         c1 == IF needsSummarization(totalTokens)
               THEN performSummarization(c0, now) ELSE c0
     IN  /\ ctxObj' = [ctxObj EXCEPT ![cref] = c1]
         /\ contextState' = [contextState EXCEPT ![r] = cref]
         /\ newPromptTokens' = [newPromptTokens EXCEPT ![r] = npt]
         /\ priorState' = [priorState EXCEPT ![r] = c0]
         /\ priorGiven' = [priorGiven EXCEPT ![r] = given]
         /\ compacted' = [compacted EXCEPT ![r] = needsSummarization(totalTokens)]
  /\ pc' = [pc EXCEPT ![r] = "sized"]
  /\ UNCHANGED << now, storeVars, queueVars, body, session, executeResult,
                  runVars, sumVars, chunkVars, estVars, lifeVars,
                  outVars, bridgeVars, singleVars, limitVars, taskVars,
                  deliveryVars, diskVars, sessVars >>

\* ContextManager.execute, steps 4-5 up to the await of runClaude: the prompt
\* is chunked when it is longer than 15000 characters, chunk_count grows when
\* there is more than one chunk, runClaude is called
ExecuteRun(r) ==
  /\ pc[r] = "sized"
  /\ LET p == body[r].prompt
         n == IF needsChunking(p.len) THEN p.nchunks ELSE 0
         cref == contextState[r]
     IN  /\ ctxObj' = IF n > 1
                      THEN [ctxObj EXCEPT ![cref].chunk_count = @ + n]
                      ELSE ctxObj
         /\ RunDispatch(r, n, sessObj[session[r]].claude_session_id)
  /\ pc' = [pc EXCEPT ![r] = "await"]
  /\ UNCHANGED << now, storeVars, queueVars, body, session, execVars,
                  sumVars, chunkVars, estVars, lifeVars,
                  outVars, bridgeVars, singleVars, limitVars, taskVars,
                  deliveryVars, diskVars, sessVars >>

\* runClaude has settled: execute's catch or its steps 6-7, then the finally
\* of the queue's wrapped task (running--, processNext)
Finalize(r) ==
  /\ pc[r] = "ran"
  /\ Quiet
  /\ LET cref == contextState[r]
         res == result[r]
     IN  /\ ctxObj' =
              IF res.thrown THEN ctxObj
              ELSE [ctxObj EXCEPT ![cref] =
                      UpdateContextState(@, res, newPromptTokens[r], now)]
         /\ executeResult' = [executeResult EXCEPT ![r] =
              IF res.thrown THEN ExecuteCatch(res, cref)
              ELSE ExecuteReturn(res, cref)]
  /\ LET nx == ProcessNext(running - 1, queue)
     IN  /\ running' = nx.running
         /\ queue' = nx.queue
         /\ pc' = [q \in Reqs |->
                     IF q = r THEN "update"
                     ELSE IF q = nx.next THEN "start" ELSE pc[q]]
  /\ UNCHANGED << now, storeVars, body, session, contextState,
                  newPromptTokens, priorState, priorGiven, compacted, runVars,
                  sumVars, chunkVars, estVars, lifeVars,
                  outVars, bridgeVars, singleVars, limitVars, taskVars,
                  deliveryVars, diskVars, sessVars >>

\* POST /execute after the queue resolved: sessionManager.update with the
\* returned context state and, when there is one, the new Claude session id
Update(r) ==
  /\ pc[r] = "update"
  /\ Quiet
  /\ LET s == body[r].session_id
         cur == cache[s]
         er == executeResult[r]
         updated == [sessObj[cur] EXCEPT
                       !.context_state = er.contextState,
                       !.claude_session_id =
                          IF er.sessionId # NoSid THEN er.sessionId ELSE @,
                       !.last_activity = now]
     IN  IF cur = NoRef
         THEN UNCHANGED storeVars
         ELSE /\ sessObj' = [sessObj EXCEPT ![MaxReqs + r] = updated]
              /\ cache' = [cache EXCEPT ![s] = MaxReqs + r]
  /\ pc' = [pc EXCEPT ![r] = "incr"]
  /\ UNCHANGED << now, ctxObj, queueVars, body, session, execVars, runVars,
                  sumVars, chunkVars, estVars, lifeVars,
                  outVars, bridgeVars, singleVars, limitVars, taskVars,
                  deliveryVars, diskVars, sessVars >>

\* sessionManager.incrementMessageCount, then the response is sent and the
\* handler returns: its locals are gone, and so are the objects that neither
\* the cache nor a handler still running refers to
IncrementMessageCount(r) ==
  /\ pc[r] = "incr"
  /\ Quiet
  /\ LET cur == cache[body[r].session_id]
         sessObj1 == IF cur = NoRef THEN sessObj
                     ELSE [sessObj EXCEPT ![cur].message_count = @ + 1,
                                          ![cur].last_activity = now]
         session1 == [session EXCEPT ![r] = NoRef]
         contextState1 == [contextState EXCEPT ![r] = NoRef]
         liveSess == {cache[s] : s \in SessionIds} \cup {session1[q] : q \in Reqs}
         liveCtx == {sessObj1[x].context_state : x \in liveSess \ {NoRef}}
                      \cup {contextState1[q] : q \in Reqs}
     IN  /\ sessObj' = [x \in SessRefs |->
                          IF x \in liveSess THEN sessObj1[x] ELSE NullSession]
         /\ ctxObj' = [x \in CtxRefs |->
                         IF x \in liveCtx THEN ctxObj[x] ELSE NullContext]
         /\ session' = session1
         /\ contextState' = contextState1
  /\ pc' = [pc EXCEPT ![r] = "done"]
  /\ body' = [body EXCEPT ![r] = [session_id |-> 0, prompt |-> NoPrompt]]
  /\ newPromptTokens' = [newPromptTokens EXCEPT ![r] = 0]
  /\ executeResult' = [executeResult EXCEPT ![r] = NullExecuteResult]
  /\ priorState' = [priorState EXCEPT ![r] = NullContext]
  /\ priorGiven' = [priorGiven EXCEPT ![r] = FALSE]
  /\ compacted' = [compacted EXCEPT ![r] = FALSE]
  /\ chunks' = [chunks EXCEPT ![r] = 0]
  /\ chunkNumber' = [chunkNumber EXCEPT ![r] = 0]
  /\ outputs' = [outputs EXCEPT ![r] = << >>]
  /\ currentSessionId' = [currentSessionId EXCEPT ![r] = NoSid]
  /\ initialSessionId' = [initialSessionId EXCEPT ![r] = NoSid]
  /\ result' = [result EXCEPT ![r] = NullResult]
  /\ invoked' = [invoked EXCEPT ![r] = << >>]
  /\ returned' = [returned EXCEPT ![r] = << >>]
  /\ UNCHANGED << now, cache, queueVars, sumVars, chunkVars, estVars, lifeVars,
                  outVars, bridgeVars, singleVars, limitVars, taskVars,
                  deliveryVars, diskVars, sessVars >>

(* -------------------- POST /reset, cleanup (server.ts) ------------------- *)
\* SessionManager.delete on the cache c: the session s is removed
Delete(c, s) == [c EXCEPT ![s] = NoRef]

\* POST /reset for session s: sessionManager.delete
Reset(s) ==
  /\ Quiet
  /\ cache' = Delete(cache, s)
  /\ deleted' = [deleted EXCEPT ![s] = @ + 1]
  /\ UNCHANGED << now, sessObj, ctxObj, queueVars, pc, body, session, execVars,
                  runVars, arrivedAfter, sumVars, chunkVars, estVars,
                  outVars, bridgeVars, singleVars, limitVars, taskVars,
                  deliveryVars, diskVars, sessVars >>

\* the sessions sessionManager.cleanup finds expired at time t
Expired(t) ==
  {s \in SessionIds :
     /\ cache[s] # NoRef
     /\ t - sessObj[cache[s]].last_activity > SESSION_TIMEOUT_MS}

\* sessionManager.cleanup (the timer of main, POST /cleanup), gap ms after
\* the last event
Cleanup(gap) ==
  /\ Quiet
  /\ Expired(now + gap) # {}
  /\ now' = now + gap
  /\ cache' = [s \in SessionIds |->
                 IF s \in Expired(now + gap) THEN Delete(cache, s)[s]
                 ELSE cache[s]]
  /\ deleted' = [s \in SessionIds |->
                   IF s \in Expired(now + gap) THEN deleted[s] + 1
                   ELSE deleted[s]]
  /\ UNCHANGED << sessObj, ctxObj, queueVars, pc, body, session, execVars,
                  runVars, arrivedAfter, sumVars, chunkVars, estVars,
                  outVars, bridgeVars, singleVars, limitVars, taskVars,
                  deliveryVars, diskVars, sessVars >>

(* ------------------- runClaude in isolation: SpecRun -------------------- *)
\* session ids: the one the client sent, the one the CLI prints as JSON for
\* part k of request r, the one it prints on stderr
ClientSid == 1
JsonSid(r, k) == 100 * r + 10 + k
StderrSid(r, k) == 100 * r + 20 + k

ShortRun == 1000
SmallOutput == 8

\* every way the CLI process of part k can end
RunOutcomes(r, k) ==
  { ProcOutcome("close", 0, TRUE, SmallOutput, ps, es, FALSE, ShortRun) :
      ps \in {NoSid, JsonSid(r, k)}, es \in {NoSid, StderrSid(r, k)} }
  \cup
  { ProcOutcome("close", 0, FALSE, len, NoSid, es, FALSE, ShortRun) :
      len \in {0, SmallOutput}, es \in {NoSid, StderrSid(r, k)} }
  \cup
  { ProcOutcome("close", 1, FALSE, len, NoSid, NoSid, st, ShortRun) :
      len \in {0, SmallOutput}, st \in BOOLEAN }
  \cup
  { ProcOutcome("error", 0, FALSE, 0, NoSid, NoSid, FALSE, ShortRun),
    ProcOutcome("throw", 0, FALSE, 0, NoSid, NoSid, FALSE, ShortRun),
    ProcOutcome("timeout", 0, FALSE, 0, NoSid, NoSid, FALSE, EXECUTION_TIMEOUT_MS) }

RunInit ==
  /\ InitCommon
  /\ NothingDeleted
  /\ SummarizerIdle
  /\ ChunkerIdle
  /\ EstimatorIdle
  /\ BridgeIdle
  /\ pc = [r \in Reqs |-> IF r = 1 THEN "call" ELSE "idle"]
  /\ \E n \in 0..MaxChunks : chunks = [r \in Reqs |-> IF r = 1 THEN n ELSE 0]
  /\ \E sid \in {NoSid, ClientSid} :
       initialSessionId = [r \in Reqs |-> IF r = 1 THEN sid ELSE NoSid]
  /\ SingleIdle
  /\ LimiterIdle
  /\ TasksIdle
  /\ DeliveryIdle
  /\ DiskIdle
  /\ SessionsIdle

RunReturn == \E o \in RunOutcomes(1, chunkNumber[1]) : ChunkReturn(1, o)

RunNext == RunCall(1) \/ RunReturn

SpecRun == RunInit /\ [][RunNext]_vars

(* --------------- one session, one turn after the other: SpecTurns ------- *)
LongRun == 61000
LargeOutput == 472000
TurnGap == 1000

\* prompts: below the chunking threshold (999 and 1000 tokens), above it in
\* two chunks, and one fenced block of 1.6 million characters (one chunk)
TurnPrompts ==
  { [len |-> 3996, nchunks |-> 0], [len |-> 4000, nchunks |-> 0],
    [len |-> 16000, nchunks |-> 2], [len |-> 1600000, nchunks |-> 1] }

TurnOutcomes(r, k) ==
  { ProcOutcome("close", 0, TRUE, len, JsonSid(r, k), NoSid, FALSE, dur) :
      len \in {SmallOutput, LargeOutput}, dur \in {ShortRun, LongRun} }
  \cup
  { ProcOutcome("close", 0, FALSE, 0, NoSid, NoSid, FALSE, ShortRun),
    ProcOutcome("close", 1, FALSE, SmallOutput, NoSid, NoSid, TRUE, ShortRun),
    ProcOutcome("throw", 0, FALSE, 0, NoSid, NoSid, FALSE, ShortRun) }

\* the service has started and no request was received
ServerIdle ==
  /\ InitCommon
  /\ NothingDeleted
  /\ pc = [r \in Reqs |-> "idle"]
  /\ chunks = [r \in Reqs |-> 0]
  /\ initialSessionId = [r \in Reqs |-> NoSid]

IdleInit ==
  ServerIdle /\ SummarizerIdle /\ ChunkerIdle /\ EstimatorIdle /\ BridgeIdle
  /\ SingleIdle
  /\ LimiterIdle
  /\ TasksIdle
  /\ DeliveryIdle
  /\ DiskIdle
  /\ SessionsIdle

\* the client sends the next request when the last one was answered
AllSettled == \A q \in Reqs : pc[q] \in {"idle", "done"}

TurnArrive ==
  \E r \in 1..MaxTurns, csid \in {NoSid, ClientSid}, p \in TurnPrompts :
    AllSettled /\ Arrive(r, 1, csid, p, TurnGap)

TurnReturn ==
  \E r \in Reqs : \E o \in TurnOutcomes(r, chunkNumber[r]) : ChunkReturn(r, o)

DoExecuteSize == \E r \in Reqs : ExecuteSize(r)
DoExecuteRun == \E r \in Reqs : ExecuteRun(r)
DoFinalize == \E r \in Reqs : Finalize(r)
DoUpdate == \E r \in Reqs : Update(r)
DoIncrementMessageCount == \E r \in Reqs : IncrementMessageCount(r)

TurnNext ==
  \/ TurnArrive
  \/ DoExecuteSize
  \/ DoExecuteRun
  \/ TurnReturn
  \/ DoFinalize
  \/ DoUpdate
  \/ DoIncrementMessageCount

SpecTurns == IdleInit /\ [][TurnNext]_vars

(* ------------- requests arriving at any time: Spec ---------------------- *)
ServerPrompts ==
  { [len |-> 4000, nchunks |-> 0], [len |-> 16000, nchunks |-> 2] }

\* the requests are handled within one millisecond of each other
ServerOutcomes(r, k) ==
  { ProcOutcome("close", 0, TRUE, SmallOutput, JsonSid(r, k), NoSid, FALSE, 0),
    ProcOutcome("close", 1, FALSE, 0, NoSid, NoSid, TRUE, 0) }

ServerArrive ==
  \E r \in Reqs, s \in SessionIds, p \in ServerPrompts :
    Arrive(r, s, NoSid, p, 0)

ServerReturn ==
  \E r \in Reqs : \E o \in ServerOutcomes(r, chunkNumber[r]) : ChunkReturn(r, o)

Next ==
  \/ ServerArrive
  \/ DoExecuteSize
  \/ DoExecuteRun
  \/ ServerReturn
  \/ DoFinalize
  \/ DoUpdate
  \/ DoIncrementMessageCount

Spec == IdleInit /\ [][Next]_vars

(* ------- one session that is reset and expires: SpecLifecycle ----------- *)
\* 29 minutes; with LongRun more it is past SESSION_TIMEOUT_MS
NearExpiryGap == 1740000
\* POST /reset is received at most MaxResets times
MaxResets == 1

LifePrompts == { [len |-> 4000, nchunks |-> 0] }

LifeOutcomes(r, k) ==
  { ProcOutcome("close", 0, TRUE, SmallOutput, JsonSid(r, k), NoSid, FALSE, 0),
    ProcOutcome("throw", 0, FALSE, 0, NoSid, NoSid, FALSE, 0) }

LifeGaps == {0, LongRun, NearExpiryGap}

\* a run of the CLI takes EXECUTION_TIMEOUT_MS at most: no more time passes
\* while a request is being handled
LifeArrive ==
  \E r \in Reqs, p \in LifePrompts, gap \in LifeGaps :
    /\ AllSettled \/ gap <= EXECUTION_TIMEOUT_MS
    /\ Arrive(r, 1, NoSid, p, gap)

LifeReturn ==
  \E r \in Reqs : \E o \in LifeOutcomes(r, chunkNumber[r]) : ChunkReturn(r, o)

LifeReset == deleted[1] < MaxResets /\ Reset(1)

LifeCleanup ==
  \E gap \in LifeGaps :
    /\ AllSettled \/ gap <= EXECUTION_TIMEOUT_MS
    /\ Cleanup(gap)

LifeNext ==
  \/ LifeArrive
  \/ LifeReset
  \/ LifeCleanup
  \/ DoExecuteSize
  \/ DoExecuteRun
  \/ LifeReturn
  \/ DoFinalize
  \/ DoUpdate
  \/ DoIncrementMessageCount

SpecLifecycle == IdleInit /\ [][LifeNext]_vars

(* ------------- the queue under one session's requests: SpecQueue -------- *)
QueuePrompts == { [len |-> 4000, nchunks |-> 0] }

\* requests for one session received while earlier ones are being handled,
\* all within one millisecond
QueueArrive ==
  \E r \in Reqs, p \in QueuePrompts : Arrive(r, 1, NoSid, p, 0)

QueueReturn ==
  \E r \in Reqs : \E o \in LifeOutcomes(r, chunkNumber[r]) : ChunkReturn(r, o)

QueueNext ==
  \/ QueueArrive
  \/ DoExecuteSize
  \/ DoExecuteRun
  \/ QueueReturn
  \/ DoFinalize
  \/ DoUpdate
  \/ DoIncrementMessageCount

SpecQueue == IdleInit /\ [][QueueNext]_vars

(* ---------------- the Queue class on its own: SpecTasks ----------------- *)
\* what the function handed to add does: its promise resolves, its promise
\* rejects, or it throws
TaskOutcomes == {"resolves", "rejects", "throws"}

\* requestQueue.add(fn) for task r
TaskAdd(r) ==
  /\ pc[r] = "idle"
  /\ waited' = [waited EXCEPT ![r] = ~HasFreeSlot(running)]
  /\ QueueAdd(r)
  /\ UNCHANGED << now, storeVars, ctxObj, body, session, execVars, runVars,
                  sumVars, chunkVars, estVars, lifeVars, outVars, bridgeVars,
                  singleVars, limitVars, deliveryVars, diskVars, sessVars >>

\* wrapped() of task r after fn was called: resolve or reject, then the
\* finally block: running--, processNext
TaskSettle(r, outcome) ==
  /\ pc[r] = "start"
  /\ LET nx == ProcessNext(running - 1, queue)
         settled == IF outcome = "resolves" THEN "resolved" ELSE "rejected"
     IN  /\ running' = nx.running
         /\ queue' = nx.queue
         /\ pc' = [q \in Reqs |->
                     IF q = r THEN settled
                     ELSE IF q = nx.next THEN "start" ELSE pc[q]]
  /\ UNCHANGED << now, storeVars, ctxObj, body, session, execVars, runVars,
                  sumVars, chunkVars, estVars, lifeVars, outVars, bridgeVars,
                  singleVars, limitVars, taskVars, deliveryVars, diskVars,
                  sessVars >>

TaskAdds == \E r \in Reqs : TaskAdd(r)
TaskSettles(r) == \E outcome \in TaskOutcomes : TaskSettle(r, outcome)
TaskSettlesAny == \E r \in Reqs : TaskSettles(r)

TaskNext == TaskAdds \/ TaskSettlesAny

SpecTasks == IdleInit /\ [][TaskNext]_vars

\* every started task eventually settles
SpecTasksLive == SpecTasks /\ \A r \in Reqs : WF_vars(TaskSettles(r))

(* ------------- the session store and its files: SpecStore --------------- *)
\* The handlers of POST /execute and POST /reset for session StoreSession,
\* followed through the awaits of SessionManager: writeFile and unlink are
\* asynchronous and several can be in flight; each takes effect on the file
\* when it settles, in any order.  Time does not pass (no session expires),
\* and no request is received after a reset.
StoreSession == 1
MaxStoreResets == 1

\* the operations in flight settle before the service is stopped
StoreQuiet ==
  /\ \A r \in Reqs : pc[r] \in {"idle", "done"}
  /\ \A s \in SessionIds : unlinks[s] = 0

\* POST /execute of request r: sessionManager.get and, when there is no
\* session, create up to the await of writeFile in save; with a session the
\* request is executed at once (the turn itself is not followed)
StoreBegin(r) ==
  /\ pc[r] = "idle"
  /\ ~restarted
  /\ deleted[StoreSession] = 0
  /\ LET s == StoreSession
         created == [session_id |-> s, claude_session_id |-> NoSid,
                     last_activity |-> now, message_count |-> 0,
                     context_state |-> NoRef]
     IN  IF cache[s] # NoRef
         THEN /\ pc' = [pc EXCEPT ![r] = "update"]
              /\ UNCHANGED << cache, sessObj, writing >>
         ELSE /\ cache' = [cache EXCEPT ![s] = r]
              /\ sessObj' = [sessObj EXCEPT ![r] = created]
              /\ writing' = [writing EXCEPT ![r] = created]
              /\ pc' = [pc EXCEPT ![r] = "creating"]
  /\ UNCHANGED << now, ctxObj, queueVars, body, session, execVars, runVars,
                  sumVars, chunkVars, estVars, lifeVars, outVars, bridgeVars,
                  singleVars, limitVars, taskVars, deliveryVars, disk,
                  unlinks, restarted, sessVars >>

\* the writeFile of create has settled; the request is executed
StoreCreated(r) ==
  /\ pc[r] = "creating"
  /\ disk' = [disk EXCEPT ![StoreSession] = writing[r]]
  /\ writing' = [writing EXCEPT ![r] = NoFile]
  /\ pc' = [pc EXCEPT ![r] = "update"]
  /\ UNCHANGED << now, storeVars, ctxObj, queueVars, body, session, execVars,
                  runVars, sumVars, chunkVars, estVars, lifeVars, outVars,
                  bridgeVars, singleVars, limitVars, taskVars, deliveryVars,
                  unlinks, restarted, sessVars >>

\* sessionManager.update after the turn of request r, up to the await of
\* writeFile in save; without a session in the cache update returns null and
\* incrementMessageCount does nothing
StoreUpdate(r) ==
  /\ pc[r] = "update"
  /\ LET s == StoreSession
         cur == cache[s]
         updated == [sessObj[cur] EXCEPT !.claude_session_id = JsonSid(r, 1),
                                         !.last_activity = now]
     IN  IF cur = NoRef
         THEN /\ pc' = [pc EXCEPT ![r] = "done"]
              /\ UNCHANGED << cache, sessObj, writing >>
         ELSE /\ sessObj' = [sessObj EXCEPT ![MaxReqs + r] = updated]
              /\ cache' = [cache EXCEPT ![s] = MaxReqs + r]
              /\ writing' = [writing EXCEPT ![r] = updated]
              /\ pc' = [pc EXCEPT ![r] = "saving"]
  /\ UNCHANGED << now, ctxObj, queueVars, body, session, execVars, runVars,
                  sumVars, chunkVars, estVars, lifeVars, outVars, bridgeVars,
                  singleVars, limitVars, taskVars, deliveryVars, disk,
                  unlinks, restarted, sessVars >>

\* the writeFile of update has settled; sessionManager.incrementMessageCount
\* up to the await of writeFile in save
StoreSaved(r) ==
  /\ pc[r] = "saving"
  /\ disk' = [disk EXCEPT ![StoreSession] = writing[r]]
  /\ LET cur == cache[StoreSession]
         counted == [sessObj[cur] EXCEPT !.message_count = @ + 1,
                                         !.last_activity = now]
     IN  IF cur = NoRef
         THEN /\ pc' = [pc EXCEPT ![r] = "done"]
              /\ writing' = [writing EXCEPT ![r] = NoFile]
              /\ UNCHANGED sessObj
         ELSE /\ sessObj' = [sessObj EXCEPT ![cur] = counted]
              /\ writing' = [writing EXCEPT ![r] = counted]
              /\ pc' = [pc EXCEPT ![r] = "counting"]
  /\ UNCHANGED << now, cache, ctxObj, queueVars, body, session, execVars,
                  runVars, sumVars, chunkVars, estVars, lifeVars, outVars,
                  bridgeVars, singleVars, limitVars, taskVars, deliveryVars,
                  unlinks, restarted, sessVars >>

\* the writeFile of incrementMessageCount has settled; the response is sent
StoreCounted(r) ==
  /\ pc[r] = "counting"
  /\ disk' = [disk EXCEPT ![StoreSession] = writing[r]]
  /\ writing' = [writing EXCEPT ![r] = NoFile]
  /\ pc' = [pc EXCEPT ![r] = "done"]
  /\ UNCHANGED << now, storeVars, ctxObj, queueVars, body, session, execVars,
                  runVars, sumVars, chunkVars, estVars, lifeVars, outVars,
                  bridgeVars, singleVars, limitVars, taskVars, deliveryVars,
                  unlinks, restarted, sessVars >>

\* POST /reset: sessionManager.delete up to the await of unlink
StoreDelete ==
  /\ ~restarted
  /\ deleted[StoreSession] < MaxStoreResets
  /\ cache' = Delete(cache, StoreSession)
  /\ deleted' = [deleted EXCEPT ![StoreSession] = @ + 1]
  /\ unlinks' = [unlinks EXCEPT ![StoreSession] = @ + 1]
  /\ UNCHANGED << now, sessObj, ctxObj, queueVars, pc, body, session,
                  execVars, runVars, arrivedAfter, sumVars, chunkVars,
                  estVars, outVars, bridgeVars, singleVars, limitVars,
                  taskVars, deliveryVars, disk, writing, restarted,
                  sessVars >>

\* an unlink has settled: the file is gone (or was not there)
StoreUnlinked ==
  /\ unlinks[StoreSession] > 0
  /\ unlinks' = [unlinks EXCEPT ![StoreSession] = @ - 1]
  /\ disk' = [disk EXCEPT ![StoreSession] = NoFile]
  /\ UNCHANGED << serverVars, sumVars, chunkVars, estVars, lifeVars, outVars,
                  bridgeVars, singleVars, limitVars, taskVars, deliveryVars,
                  writing, restarted, sessVars >>

\* the service is started again: init, loadSessions
StoreRestart ==
  /\ ~restarted
  /\ StoreQuiet
  /\ \E r \in Reqs : pc[r] = "done"
  /\ restarted' = TRUE
  /\ cache' = [s \in SessionIds |-> IF disk[s] = NoFile THEN NoRef ELSE s]
  /\ sessObj' = [x \in SessRefs |->
                   IF x \in SessionIds /\ disk[x] # NoFile THEN disk[x]
                   ELSE NullSession]
  /\ UNCHANGED << now, ctxObj, queueVars, pc, body, session, execVars,
                  runVars, sumVars, chunkVars, estVars, lifeVars, outVars,
                  bridgeVars, singleVars, limitVars, taskVars, deliveryVars,
                  disk, writing, unlinks, sessVars >>

StoreBegins == \E r \in Reqs : StoreBegin(r)
StoreCreates == \E r \in Reqs : StoreCreated(r)
StoreUpdates == \E r \in Reqs : StoreUpdate(r)
StoreSaves == \E r \in Reqs : StoreSaved(r)
StoreCounts == \E r \in Reqs : StoreCounted(r)

StoreNext ==
  \/ StoreBegins
  \/ StoreCreates
  \/ StoreUpdates
  \/ StoreSaves
  \/ StoreCounts
  \/ StoreDelete
  \/ StoreUnlinked
  \/ StoreRestart

SpecStore == IdleInit /\ [][StoreNext]_vars

(* ------------- HistorySummarizer.summarize: SpecSummarize --------------- *)
MaxMessages == 26

\* summarize(messages, claudeRunner) up to its first await: the early returns
\* for an empty transcript and for one of at most 5 messages, else the
\* choice of the kept messages and of the messages to summarize, and the
\* call of the runner by generateSummary
SummarizeCall ==
  /\ sumPc = "call"
  /\ IF Len(messages) = 0
     THEN /\ summarization' = SummarizationResult(EmptyText, << >>, 0, 0)
          /\ sumPc' = "done"
          /\ UNCHANGED << recentMessages, messagesToSummarize, originalTokens,
                          summaryRequest >>
     ELSE IF Len(messages) <= RECENT_MESSAGE_COUNT
     THEN /\ summarization' = Unsummarized(messages)
          /\ sumPc' = "done"
          /\ UNCHANGED << recentMessages, messagesToSummarize, originalTokens,
                          summaryRequest >>
     ELSE /\ recentMessages' = RecentOf(messages)
          /\ messagesToSummarize' = getMessagesToSummarize(messages)
          /\ originalTokens' = calculateTotalTokens(messages)
          /\ IF getMessagesToSummarize(messages) = << >>
             THEN /\ summarization' =
                       SummarizationResult(EmptyText, RecentOf(messages),
                         calculateTotalTokens(messages),
                         calculateTotalTokens(RecentOf(messages)))
                  /\ sumPc' = "done"
                  /\ UNCHANGED summaryRequest
             ELSE /\ summaryRequest' =
                       Append(summaryRequest,
                              SummaryRequest(getMessagesToSummarize(messages)))
                  /\ sumPc' = "await"
                  /\ UNCHANGED summarization
  /\ UNCHANGED << messages, claudeRunner, runnerSettled, serverVars, chunkVars, estVars, lifeVars,
                  outVars, bridgeVars, singleVars, limitVars, taskVars,
                  deliveryVars, diskVars, sessVars >>

\* the runner settled with o: generateSummary returns (or its catch does),
\* summarize computes the reduced tokens and returns
SummarizerSettle(o) ==
  /\ sumPc = "await"
  /\ LET g == generateSummary(messagesToSummarize, o)
     IN  summarization' =
           IF g.thrown THEN SummarizationRejected
           ELSE SummarizationResult(g.summary, recentMessages, originalTokens,
                                    reducedTokens(g.summary, recentMessages))
  /\ sumPc' = "done"
  /\ runnerSettled' = Append(runnerSettled, o)
  /\ UNCHANGED << messages, claudeRunner, recentMessages, messagesToSummarize,
                  originalTokens, summaryRequest, serverVars, chunkVars, estVars, lifeVars,
                  outVars, bridgeVars, singleVars, limitVars, taskVars,
                  deliveryVars, diskVars, sessVars >>

ShortContent == 48
LongContent == 4001

\* the i-th message of a transcript: user and assistant take turns, the
\* content is short, long or (every seventh message) empty
TranscriptMessage(long, i) ==
  Message(IF i % 2 = 1 THEN "user" ELSE "assistant",
          IF i % 7 = 0 THEN EmptyText
          ELSE << [t |-> "msg", r |-> 0, a |-> i, b |-> 0,
                   len |-> (IF long THEN LongContent ELSE ShortContent) + i] >>,
          i)

Transcript(long, n) == [i \in 1..n |-> TranscriptMessage(long, i)]

\* what a runner given by the caller can do: resolve with a summary, with
\* the empty string, or reject
CustomOutcomes ==
  { [ok |-> TRUE, text |-> << [t |-> "summary", r |-> 0, a |-> 0, b |-> 0,
                               len |-> 200] >>],
    [ok |-> TRUE, text |-> EmptyText],
    [ok |-> FALSE, text |-> EmptyText] }

RunnerOutcomes ==
  IF claudeRunner = "default"
  THEN { [ok |-> TRUE,
          text |-> defaultClaudeRunner(summaryRequest[Len(summaryRequest)])] }
  ELSE CustomOutcomes

SummarizeInit ==
  /\ ServerIdle
  /\ ChunkerIdle
  /\ EstimatorIdle
  /\ BridgeIdle
  /\ sumPc = "call"
  /\ \E n \in 0..MaxMessages, long \in BOOLEAN : messages = Transcript(long, n)
  /\ claudeRunner \in {"default", "custom"}
  /\ recentMessages = << >>
  /\ messagesToSummarize = << >>
  /\ originalTokens = 0
  /\ summaryRequest = << >>
  /\ runnerSettled = << >>
  /\ summarization = NullSummarization
  /\ SingleIdle
  /\ LimiterIdle
  /\ TasksIdle
  /\ DeliveryIdle
  /\ DiskIdle
  /\ SessionsIdle

RunnerSettle ==
  /\ sumPc = "await"
  /\ \E o \in RunnerOutcomes : SummarizerSettle(o)

SummarizeNext == SummarizeCall \/ RunnerSettle

SpecSummarize == SummarizeInit /\ [][SummarizeNext]_vars

(* ------------------------ InputChunker.chunk alone ----------------------- *)
\* Texts are built from at most MaxTokens tokens; a token is one character or
\* a fence marker.  Sizes run from 0 to MaxChunkSize.
MaxTokens == 4
MaxChunkSize == 8
\* the loop of chunk is followed until it has pushed more chunks than the
\* text has characters
SegmentCap(t) == Len(t) + 1

Tokens == { << Plain >>, << Terminator >>, << Blank >>, << LineFeed >>,
            << Tick, Tick, Tick >> }

RECURSIVE Flatten(_)
Flatten(ts) == IF ts = << >> THEN << >> ELSE Head(ts) \o Flatten(Tail(ts))

\* longer texts where a boundary stands before a code block that holds a
\* boundary of the same kind itself
FencedTexts ==
  { Flatten(<< << LineFeed >>, << LineFeed >>, << Plain >>,
               << Tick, Tick, Tick >>, << LineFeed >>, << LineFeed >>,
               << Tick, Tick, Tick >> >>),
    Flatten(<< << LineFeed >>, << LineFeed >>, << Terminator >>, << Blank >>,
               << Tick, Tick, Tick >>, << LineFeed >>, << LineFeed >>,
               << Tick, Tick, Tick >> >>),
    Flatten(<< << LineFeed >>, << Tick, Tick, Tick >>, << LineFeed >>,
               << Tick, Tick, Tick >>, << LineFeed >> >>),
    Flatten(<< << Plain >>, << Terminator >>, << Blank >>, << Plain >>,
               << Tick, Tick, Tick >>, << Terminator >>, << Blank >>,
               << Tick, Tick, Tick >>, << Plain >> >>) }

\* a longer text without any boundary, as the hundred x of the tests
LongPlainLen == 10
PlainText == [i \in 1..LongPlainLen |-> Plain]

Texts ==
  UNION { { Flatten(ts) : ts \in [1..k -> Tokens] } : k \in 0..MaxTokens }
    \cup FencedTexts \cup {PlainText}

\* without a code block in the text, preserveCodeBlocks makes no difference
ChunkInit ==
  /\ ServerIdle
  /\ SummarizerIdle
  /\ EstimatorIdle
  /\ BridgeIdle
  /\ chunkPc = "call"
  /\ text \in Texts
  /\ maxChunkSize \in 0..MaxChunkSize
  /\ preserveCodeBlocks \in IF findCodeBlocks(text) = << >> THEN {TRUE}
                            ELSE BOOLEAN
  /\ codeBlocks = << >>
  /\ textChunks = << >>
  /\ currentPosition = 0
  /\ splits = << >>
  /\ SingleIdle
  /\ LimiterIdle
  /\ TasksIdle
  /\ DeliveryIdle
  /\ DiskIdle
  /\ SessionsIdle

\* chunk(text, {maxChunkSize, preserveCodeBlocks}) up to the loop
ChunkCall ==
  /\ chunkPc = "call"
  /\ IF ~ExceedsMaxSize(Len(text), maxChunkSize)
     THEN /\ textChunks' = << text >>
          /\ splits' = << [start |-> 0, end |-> Len(text), by |-> "whole"] >>
          /\ chunkPc' = "done"
          /\ UNCHANGED codeBlocks
     ELSE /\ codeBlocks' = IF preserveCodeBlocks THEN findCodeBlocks(text)
                           ELSE << >>
          /\ chunkPc' = IF 0 < Len(text) THEN "loop" ELSE "done"
          /\ UNCHANGED << textChunks, splits >>
  /\ UNCHANGED << text, maxChunkSize, preserveCodeBlocks, currentPosition,
                  serverVars, sumVars, estVars, lifeVars,
                  outVars, bridgeVars, singleVars, limitVars, taskVars,
                  deliveryVars, diskVars, sessVars >>

\* one turn of the while loop of chunk
ChunkLoop ==
  /\ chunkPc = "loop"
  /\ Len(textChunks) < SegmentCap(text)
  /\ LET codeBlockAtPosition == CodeBlockAt(currentPosition, codeBlocks)
         splitPoint == findBestSplitPoint(text, currentPosition, maxChunkSize,
                                          codeBlocks)
     IN  IF Fits(Len(text) - currentPosition, maxChunkSize)
         THEN /\ textChunks' =
                   Append(textChunks,
                          substring(text, currentPosition, Len(text)))
              /\ splits' = Append(splits, [start |-> currentPosition,
                                           end |-> Len(text), by |-> "rest"])
              /\ chunkPc' = "done"
              /\ UNCHANGED currentPosition
         ELSE IF codeBlockAtPosition # << >>
         THEN /\ textChunks' =
                   Append(textChunks,
                          substring(text, codeBlockAtPosition[1].start,
                                    codeBlockAtPosition[1].end))
              /\ splits' = Append(splits, [start |-> currentPosition,
                                           end |-> codeBlockAtPosition[1].end,
                                           by |-> "block"])
              /\ currentPosition' = codeBlockAtPosition[1].end
              /\ chunkPc' = IF codeBlockAtPosition[1].end < Len(text)
                            THEN "loop" ELSE "done"
         ELSE /\ textChunks' =
                   Append(textChunks,
                          substring(text, currentPosition, splitPoint.point))
              /\ splits' = Append(splits, [start |-> currentPosition,
                                           end |-> splitPoint.point,
                                           by |-> splitPoint.by])
              /\ currentPosition' = splitPoint.point
              /\ chunkPc' = IF splitPoint.point < Len(text)
                            THEN "loop" ELSE "done"
  /\ UNCHANGED << text, maxChunkSize, preserveCodeBlocks, codeBlocks,
                  serverVars, sumVars, estVars, lifeVars,
                  outVars, bridgeVars, singleVars, limitVars, taskVars,
                  deliveryVars, diskVars, sessVars >>

ChunkNext == ChunkCall \/ ChunkLoop

SpecChunk == ChunkInit /\ [][ChunkNext]_vars

(* --------------------- ContextEstimator.estimate alone -------------------- *)
\* estimate is called on two texts, one after the other; the texts are up to
\* MaxTextLen characters long
MaxTextLen == 13

EstimateInit ==
  /\ ServerIdle
  /\ SummarizerIdle
  /\ ChunkerIdle
  /\ BridgeIdle
  /\ estimateArgs \in (0..MaxTextLen) \X (0..MaxTextLen)
  /\ estimateResults = << >>
  /\ SingleIdle
  /\ LimiterIdle
  /\ TasksIdle
  /\ DeliveryIdle
  /\ DiskIdle
  /\ SessionsIdle

Estimate ==
  /\ Len(estimateResults) < Len(estimateArgs)
  /\ estimateResults' =
       Append(estimateResults,
              estimate(estimateArgs[Len(estimateResults) + 1]))
  /\ UNCHANGED << estimateArgs, serverVars, sumVars, chunkVars, lifeVars,
                  outVars, bridgeVars, singleVars, limitVars, taskVars,
                  deliveryVars, diskVars, sessVars >>

EstimateNext == Estimate

SpecEstimate == EstimateInit /\ [][EstimateNext]_vars

(* --------------- SynologyClient.chunkMessage: SpecOutput ---------------- *)
OutShort == 1000
OutHalf == 1750
OutLong == 4000
OutBlock == 2000
OutBigBlock == 3600
MaxOutLines == 2
MaxOutParas == 2

OutLines ==
  { l \in [plain : {0, OutShort, OutHalf, OutLong},
           blocks : {<< >>, << OutBlock >>, << OutBigBlock >>}] :
      l.plain > 0 \/ l.blocks # << >> }

SeqsUpTo(S, n) == UNION { [1..k -> S] : k \in 1..n }

OutTexts == SeqsUpTo(SeqsUpTo(OutLines, MaxOutLines), MaxOutParas)

OutputInit ==
  /\ ServerIdle
  /\ SummarizerIdle
  /\ ChunkerIdle
  /\ EstimatorIdle
  /\ BridgeStarted(0)
  /\ outText \in OutTexts
  /\ outChunks = << >>
  /\ outDone = FALSE
  /\ SingleIdle
  /\ LimiterIdle
  /\ TasksIdle
  /\ DeliveryIdle
  /\ DiskIdle
  /\ SessionsIdle

ChunkMessage ==
  /\ ~outDone
  /\ outChunks' = chunkMessage(outText)
  /\ outDone' = TRUE
  /\ UNCHANGED << outText, serverVars, sumVars, chunkVars, estVars, lifeVars,
                  bridgeVars, singleVars, limitVars, taskVars, deliveryVars,
                  diskVars, sessVars >>

OutputNext == ChunkMessage

SpecOutput == OutputInit /\ [][OutputNext]_vars

(* ------------- the bridge: rate-limiter.ts, index.ts -------------------- *)
\* Date.now() when the bridge starts: later than any delay after the epoch
StartClock == 3000
\* no timer fires after MaxClock
MaxClock == 6200
\* the executor and the chat platform answer, and requests arrive, up to
\* MaxBusyClock
MaxBusyClock == 3900
ClockStep == 300

\* rateLimiter.throttle('synology_outgoing', 600)
THROTTLE_MS == 600
\* the wait before a message is sent again
RETRY_WAIT_MS == 2000
\* rateLimiter.canProceed('global', 500)
GLOBAL_MIN_DELAY_MS == 500
\* rateLimiter.isUserRateLimited(userId, 20)
USER_MAX_PER_MINUTE == 20
HISTORY_WINDOW_MS == 60000

\* RateLimiter.canProceed
canProceed(last, minDelayMs) == clock - last >= minDelayMs

\* RateLimiter.record, on the history of the key
RECURSIVE After(_, _)
After(history, t) ==
  IF history = << >> THEN << >>
  ELSE IF Head(history) > t
       THEN << Head(history) >> \o After(Tail(history), t)
       ELSE After(Tail(history), t)

recordHistory(history) ==
  After(Append(history, clock), clock - HISTORY_WINDOW_MS)

\* RateLimiter.isUserRateLimited
isUserRateLimitedAbove(history, maxPerMinute) ==
  Len(After(history, clock - HISTORY_WINDOW_MS)) > maxPerMinute

isUserRateLimited(history, maxPerMinute) ==
  Len(After(history, clock - HISTORY_WINDOW_MS)) >= maxPerMinute

\* POST /webhook, lines 78-111: what becomes of a request with a valid or
\* invalid token and a command of the given kind, when the last request
\* was recorded at lastGlobal and history is the user's requestHistory
Admission(tokenOk, kind, lastGlobal, history) ==
  IF ~tokenOk THEN "unauthorized"
  ELSE IF kind = "empty" THEN "greeted"
  ELSE IF ~canProceed(lastGlobal, GLOBAL_MIN_DELAY_MS) THEN "ignored"
  ELSE IF isUserRateLimited(history, USER_MAX_PER_MINUTE) THEN "slowdown"
  ELSE "accepted"

ThrottleWaitNone(elapsed) == 0

\* RateLimiter.throttle: how long it waits, elapsed ms after the last record
ThrottleWait(elapsed) ==
  IF elapsed < THROTTLE_MS THEN THROTTLE_MS - elapsed ELSE 0

\* the log of the POSTs keeps the last two
PostLog(log, post) ==
  IF Len(log) < 2 THEN Append(log, post) ELSE << log[2], post >>

SettledLog(log, outcome) ==
  [log EXCEPT ![Len(log)] = [@ EXCEPT !.outcome = outcome]]

\* processQueue at the test of its loop at time t, with queue q and log of
\* POSTs log, awaited by the sendMessage of handler d, last being
\* lastRequest: it ends when q is empty, else it takes the first message and
\* calls throttle, which sets a timer or records the request at once, and
\* then the message is POSTed; active counts the calls of processQueue that
\* have not returned, this one included
ProcessQueueAt(t, q, log, d, last, active) ==
  IF q = << >>
  THEN /\ processing' = FALSE
       /\ loops' = active - 1
       /\ drainer' = 0
       /\ sendPc' = "idle"
       /\ sending' = NoMessage
       /\ messageQueue' = q
       /\ posts' = log
       /\ lastRequest' = last
       /\ UNCHANGED wakeAt
  ELSE /\ processing' = TRUE
       /\ loops' = active
       /\ drainer' = d
       /\ sending' = Head(q)
       /\ messageQueue' = Tail(q)
       /\ LET wait == ThrottleWait(t - last.synology_outgoing)
          IN  IF wait > 0
              THEN /\ sendPc' = "throttle"
                   /\ wakeAt' = t + wait
                   /\ posts' = log
                   /\ lastRequest' = last
              ELSE /\ sendPc' = "fetch"
                   /\ lastRequest' = [last EXCEPT !.synology_outgoing = t]
                   /\ posts' = PostLog(log, [msg |-> Head(q), at |-> t,
                                             outcome |-> "pending"])
                   /\ UNCHANGED wakeAt

\* this.messageQueue.unshift(message), after a network failure
UnshiftAtEnd(q, message) == Append(q, message)

Unshift(q, message) == << message >> \o q

\* sendMessage: the test that starts processQueue, if (!this.processing)
StartsLoopAlways(busy) == TRUE

StartsLoop(busy) == ~busy

\* sendMessage(text) called by the handler of request w for its nth message,
\* last being lastRequest: the chunks are queued, and processQueue is
\* started unless it is running
SendMessage(w, nth, t, last) ==
  LET n == Len(chunkMessage(t))
      pieces == [k \in 1..n |-> [hook |-> w, nth |-> nth, part |-> k, of |-> n]]
      q == messageQueue \o pieces
  IN  /\ replied' = [replied EXCEPT ![w] = TRUE]
      /\ enqueued' = enqueued \o pieces
      /\ IF StartsLoop(processing)
         THEN ProcessQueueAt(clock, q, posts, w, last, loops + 1)
         ELSE /\ messageQueue' = q
              /\ lastRequest' = last
              /\ UNCHANGED << processing, drainer, sendPc, sending, wakeAt,
                              posts, loops >>

\* the texts the bridge sends on its own are short
ShortReply == << << [plain |-> 20, blocks |-> << >>] >> >>
\* a reply of two paragraphs of 2000 characters
LongReply == << << [plain |-> OutBlock, blocks |-> << >>] >>,
                << [plain |-> OutBlock, blocks |-> << >>] >> >>

\* POST /webhook of request w up to its first await that may wait: the token
\* is checked, an empty command is greeted, the rate limits are checked and
\* recorded, a command of the bridge (reset, status, help: "special") is
\* answered, any other command gets its processing indicator. All requests
\* of SpecBridge are of one user.
Webhook(w, tokenOk, kind) ==
  /\ hpc[w] = "idle"
  /\ \A v \in Hooks : v < w => hpc[v] # "idle"
  /\ command' = [command EXCEPT ![w] =
                    [kind |-> IF tokenOk THEN kind ELSE "none",
                     tokenOk |-> tokenOk]]
  /\ LET admission == Admission(tokenOk, kind, lastRequest.global,
                                requestHistory[BridgeUser])
     IN  IF admission \in {"unauthorized", "ignored"}
         THEN /\ hpc' = [hpc EXCEPT ![w] = "done"]
              /\ UNCHANGED << messageQueue, processing, lastRequest,
                              requestHistory, sendPc, sending, wakeAt, posts,
                              drainer, replied, deliveryVars >>
         ELSE IF admission \in {"greeted", "slowdown"}
         THEN /\ SendMessage(w, 1, ShortReply, lastRequest)
              /\ hpc' = [hpc EXCEPT ![w] = "final"]
              /\ UNCHANGED requestHistory
         ELSE /\ requestHistory' =
                   [requestHistory EXCEPT ![BridgeUser] = recordHistory(@)]
              /\ SendMessage(w, 1, ShortReply,
                             [lastRequest EXCEPT !.global = clock])
              /\ hpc' = [hpc EXCEPT ![w] =
                           IF kind = "special" THEN "final" ELSE "thinking"]
  /\ UNCHANGED << clock, forwarded, serverVars, sumVars, chunkVars, estVars,
                  lifeVars, outVars, singleVars, limitVars, taskVars,
                  diskVars, sessVars >>

\* the sendMessage that the handler of request w awaits has returned: after
\* the processing indicator executor.execute is called, after any other
\* message the request is answered
Resume(w) ==
  /\ hpc[w] \in {"thinking", "final"}
  /\ drainer # w
  /\ hpc' = [hpc EXCEPT ![w] = IF @ = "thinking" THEN "executing" ELSE "done"]
  /\ forwarded' = [forwarded EXCEPT ![w] = @ \/ hpc[w] = "thinking"]
  /\ UNCHANGED << clock, messageQueue, processing, lastRequest,
                  requestHistory, sendPc, sending, wakeAt, posts, command,
                  drainer, replied, serverVars, sumVars, chunkVars, estVars,
                  lifeVars, outVars, singleVars, limitVars, taskVars,
                  deliveryVars, diskVars, sessVars >>

\* executor.execute has returned for request w: the result, or the error
\* message, is sent
ExecutorReturn(w, t) ==
  /\ hpc[w] = "executing"
  /\ SendMessage(w, 2, t, lastRequest)
  /\ hpc' = [hpc EXCEPT ![w] = "final"]
  /\ UNCHANGED << clock, requestHistory, command, forwarded, serverVars,
                  sumVars, chunkVars, estVars, lifeVars, outVars,
                  singleVars, limitVars, taskVars, diskVars, sessVars >>

\* the timer of throttle fires when it is due: the request is recorded and
\* the message is POSTed
ThrottleWake ==
  /\ sendPc = "throttle"
  /\ wakeAt <= MaxClock
  /\ clock' = wakeAt
  /\ sendPc' = "fetch"
  /\ lastRequest' = [lastRequest EXCEPT !.synology_outgoing = wakeAt]
  /\ posts' = PostLog(posts, [msg |-> sending, at |-> wakeAt,
                              outcome |-> "pending"])
  /\ UNCHANGED << messageQueue, processing, requestHistory, sending,
                  wakeAt, hpc, command, drainer, forwarded, replied,
                  serverVars, sumVars, chunkVars, estVars, lifeVars,
                  outVars, singleVars, limitVars, taskVars, deliveryVars,
                  diskVars, sessVars >>

\* fetch has settled: with a response that is ok ("ok") or not ("api"), or
\* with an exception ("network"); after an exception the message is put back
\* at the head of the queue and processQueue waits RETRY_WAIT_MS
FetchSettle(outcome) ==
  /\ sendPc = "fetch"
  /\ IF outcome = "network"
     THEN /\ messageQueue' = Unshift(messageQueue, sending)
          /\ sendPc' = "retry"
          /\ wakeAt' = clock + RETRY_WAIT_MS
          /\ posts' = SettledLog(posts, outcome)
          /\ UNCHANGED << processing, drainer, sending, lastRequest, loops >>
     ELSE ProcessQueueAt(clock, messageQueue, SettledLog(posts, outcome),
                         drainer, lastRequest, loops)
  /\ UNCHANGED << clock, requestHistory, hpc, command, forwarded, replied,
                  serverVars, sumVars, chunkVars, estVars, lifeVars,
                  outVars, singleVars, limitVars, taskVars, enqueued,
                  diskVars, sessVars >>

\* the wait after a network failure is over when it is due: back to the
\* test of the loop
RetryWake ==
  /\ sendPc = "retry"
  /\ wakeAt <= MaxClock
  /\ clock' = wakeAt
  /\ ProcessQueueAt(wakeAt, messageQueue, posts, drainer, lastRequest,
                    loops)
  /\ UNCHANGED << requestHistory, hpc, command, forwarded, replied,
                  serverVars, sumVars, chunkVars, estVars, lifeVars,
                  outVars, singleVars, limitVars, taskVars, enqueued,
                  diskVars, sessVars >>

\* time passes while no timer is set and no handler can go on
Advance(d) ==
  /\ \A w \in Hooks : ~(hpc[w] \in {"thinking", "final"} /\ drainer # w)
  /\ sendPc \notin {"throttle", "retry"}
  /\ clock' = clock + d
  /\ UNCHANGED << messageQueue, processing, lastRequest, requestHistory,
                  sendPc, sending, wakeAt, posts, hpc, command, drainer,
                  forwarded, replied, serverVars, sumVars, chunkVars,
                  estVars, lifeVars, outVars, singleVars, limitVars,
                  taskVars, deliveryVars, diskVars, sessVars >>

(* ---------------- the bridge and its webhooks: SpecBridge --------------- *)
BridgeInit ==
  /\ ServerIdle
  /\ SummarizerIdle
  /\ ChunkerIdle
  /\ EstimatorIdle
  /\ OutputIdle
  /\ BridgeStarted(StartClock)
  /\ SingleIdle
  /\ LimiterIdle
  /\ TasksIdle
  /\ DeliveryIdle
  /\ DiskIdle
  /\ SessionsIdle

BridgeWebhook ==
  \E w \in Hooks, kind \in {"badtoken", "empty", "special", "chat"} :
    Webhook(w, kind # "badtoken", kind)

BridgeResume == \E w \in Hooks : Resume(w)

BridgeExecutorReturn ==
  \E w \in Hooks, t \in {ShortReply, LongReply} : ExecutorReturn(w, t)

BridgeFetchSettle == \E o \in {"ok", "api", "network"} : FetchSettle(o)

BridgeAdvance == clock + ClockStep <= MaxBusyClock /\ Advance(ClockStep)

BridgeNext ==
  \/ BridgeWebhook
  \/ BridgeResume
  \/ BridgeExecutorReturn
  \/ ThrottleWake
  \/ BridgeFetchSettle
  \/ RetryWake
  \/ BridgeAdvance

SpecBridge == BridgeInit /\ [][BridgeNext]_vars

(* ------------- the session table of the bridge: SpecSessions ------------ *)
\* The calls of BridgeSessionManager for one session id in any order, time
\* passing between them MaxTicks times, by SessionStep or by a day.
MaxTicks == 4
MaxCount == 2
SessionStep == 1000000
BridgeSessionId == "c1_u1"

SessionsFrame ==
  UNCHANGED << serverVars, sumVars, chunkVars, estVars, lifeVars, outVars,
               messageQueue, processing, lastRequest, requestHistory,
               sendPc, sending, wakeAt, posts, hpc, command, drainer,
               forwarded, replied, singleVars, limitVars, taskVars,
               deliveryVars, diskVars >>

SessGet ==
  /\ row' = BridgeGet(row, clock).row
  /\ got' = BridgeGet(row, clock).result
  /\ UNCHANGED << clock, ticks >>
  /\ SessionsFrame

SessGetOrCreate ==
  /\ row' = BridgeGetOrCreate(row, BridgeSessionId, clock).row
  /\ got' = BridgeGetOrCreate(row, BridgeSessionId, clock).result
  /\ UNCHANGED << clock, ticks >>
  /\ SessionsFrame

SessUpdate(csid) ==
  /\ row.message_count < MaxCount
  /\ row' = BridgeUpdate(row, csid, clock)
  /\ UNCHANGED << clock, got, ticks >>
  /\ SessionsFrame

SessTouch ==
  /\ row' = BridgeTouch(row, clock)
  /\ UNCHANGED << clock, got, ticks >>
  /\ SessionsFrame

SessCleanup ==
  /\ row' = BridgeCleanup(row, clock)
  /\ UNCHANGED << clock, got, ticks >>
  /\ SessionsFrame

SessAdvance(d) ==
  /\ ticks < MaxTicks
  /\ ticks' = ticks + 1
  /\ clock' = clock + d
  /\ UNCHANGED << row, got >>
  /\ SessionsFrame

SessUpdates == \E csid \in {JsonSid(1, 1)} : SessUpdate(csid)
SessAdvances == \E d \in {SessionStep, ARCHIVE_AFTER_MS} : SessAdvance(d)

SessionsNext ==
  \/ SessGet
  \/ SessGetOrCreate
  \/ SessUpdates
  \/ SessTouch
  \/ SessCleanup
  \/ SessAdvances

SpecSessions == BridgeInit /\ [][SessionsNext]_vars

(* ------------ the rate limits of POST /webhook: SpecLimiter ------------- *)
\* The bridge has accepted up to USER_MAX_PER_MINUTE requests of one user,
\* PastSpacing ms apart; MaxArrivals more requests of either user arrive,
\* each at once or GapUnderDelay, GapOverDelay or PastSpacing ms after the
\* last one.
MaxArrivals == 3
PastSpacing == 3000
GapUnderDelay == 400
GapOverDelay == 600
LimiterGaps == {GapUnderDelay, GapOverDelay, PastSpacing}

PastRequests(k) == [i \in 1..k |-> StartClock + (i - 1) * PastSpacing]

\* how many requests of user u were accepted less than 60 s ago
RecentlyAccepted(u) ==
  Cardinality({ i \in 1..Len(accepted[u]) :
                  accepted[u][i] > clock - HISTORY_WINDOW_MS })

LimiterInit ==
  /\ ServerIdle
  /\ SummarizerIdle
  /\ ChunkerIdle
  /\ EstimatorIdle
  /\ OutputIdle
  /\ SingleIdle
  /\ \E k \in 0..USER_MAX_PER_MINUTE :
       LET past == PastRequests(k)
           last == IF k = 0 THEN 0 ELSE past[k]
       IN  /\ clock = IF k = 0 THEN StartClock ELSE last
           /\ lastRequest = [global |-> last, synology_outgoing |-> last]
           /\ requestHistory =
                [u \in UserIds |-> IF u = BridgeUser THEN past ELSE << >>]
           /\ accepted =
                [u \in UserIds |-> IF u = BridgeUser THEN past ELSE << >>]
  /\ messageQueue = << >>
  /\ processing = FALSE
  /\ sendPc = "idle"
  /\ sending = NoMessage
  /\ wakeAt = 0
  /\ posts = << >>
  /\ hpc = [w \in Hooks |-> "idle"]
  /\ command = [w \in Hooks |-> [kind |-> "none", tokenOk |-> FALSE]]
  /\ drainer = 0
  /\ forwarded = [w \in Hooks |-> FALSE]
  /\ replied = [w \in Hooks |-> FALSE]
  /\ handled = NoRequest
  /\ arrivals = 0
  /\ TasksIdle
  /\ DeliveryIdle
  /\ DiskIdle
  /\ SessionsIdle

\* POST /webhook of user u, lines 78-111: the token, the empty command, the
\* global and the per-user limit, and the two calls of record; what the
\* handler goes on to do with the request is its admission
LimiterRequest(u, tokenOk, kind) ==
  /\ arrivals < MaxArrivals
  /\ arrivals' = arrivals + 1
  /\ LET admission == Admission(tokenOk, kind, lastRequest.global,
                                requestHistory[u])
     IN  /\ handled' =
              [user |-> u, at |-> clock, tokenOk |-> tokenOk,
               empty |-> kind = "empty",
               globalOk |-> canProceed(lastRequest.global, GLOBAL_MIN_DELAY_MS),
               recent |-> RecentlyAccepted(u), admission |-> admission]
         /\ IF admission = "accepted"
            THEN /\ lastRequest' = [lastRequest EXCEPT !.global = clock]
                 /\ requestHistory' =
                      [requestHistory EXCEPT ![u] = recordHistory(@)]
                 /\ accepted' = [accepted EXCEPT ![u] = Append(@, clock)]
            ELSE UNCHANGED << lastRequest, requestHistory, accepted >>
  /\ UNCHANGED << clock, messageQueue, processing, sendPc, sending, wakeAt,
                  posts, hpc, command, drainer, forwarded, replied,
                  serverVars, sumVars, chunkVars, estVars, lifeVars, outVars,
                  singleVars, taskVars, deliveryVars, diskVars, sessVars >>

\* gap ms pass after a request was handled (or after the bridge accepted the
\* last of the earlier requests)
LimiterWait(gap) ==
  /\ arrivals < MaxArrivals
  /\ clock = IF arrivals > 0 THEN handled.at
             ELSE IF lastRequest.global = 0 THEN StartClock
             ELSE lastRequest.global
  /\ clock' = clock + gap
  /\ UNCHANGED << messageQueue, processing, lastRequest, requestHistory,
                  sendPc, sending, wakeAt, posts, hpc, command, drainer,
                  forwarded, replied, serverVars, sumVars, chunkVars, estVars,
                  lifeVars, outVars, singleVars, limitVars, taskVars,
                  deliveryVars, diskVars, sessVars >>

LimiterArrive ==
  \E u \in UserIds, tokenOk \in BOOLEAN, kind \in {"empty", "special", "chat"} :
    LimiterRequest(u, tokenOk, kind)

LimiterAdvance == \E gap \in LimiterGaps : LimiterWait(gap)

LimiterNext == LimiterArrive \/ LimiterAdvance

SpecLimiter == LimiterInit /\ [][LimiterNext]_vars

(* ------------- runClaudeSingle event by event: SpecSingle --------------- *)
SingleStep == 100000
MaxElapsed == 500000

ResolveOverwrites(p, v) == v

\* resolve(v) on a promise whose state is p: a settled promise keeps its value
Resolve(p, v) == IF p.set THEN p ELSE v

\* the ways the process can close
SingleCloses ==
  { o \in RunOutcomes(1, 1) : o.ev = "close" }

TimeoutOutcome ==
  ProcOutcome("timeout", 0, FALSE, 0, NoSid, NoSid, FALSE, EXECUTION_TIMEOUT_MS)
ErrorOutcome == ProcOutcome("error", 0, FALSE, 0, NoSid, NoSid, FALSE, 0)
ThrowOutcome == ProcOutcome("throw", 0, FALSE, 0, NoSid, NoSid, FALSE, 0)

SingleInit ==
  /\ ServerIdle
  /\ SummarizerIdle
  /\ ChunkerIdle
  /\ EstimatorIdle
  /\ BridgeIdle
  /\ proc = "none"
  /\ sessionIdArg \in {NoSid, ClientSid}
  /\ timeoutArmed = FALSE
  /\ procElapsed = 0
  /\ promise = NullResult
  /\ resolves = 0
  /\ fired = FALSE
  /\ LimiterIdle
  /\ TasksIdle
  /\ DeliveryIdle
  /\ DiskIdle
  /\ SessionsIdle

\* the executor of the promise: spawn, the listeners, setTimeout; when spawn
\* throws the promise is rejected and no timeout is set
SingleSpawn(threw) ==
  /\ proc = "none"
  /\ IF threw
     THEN /\ proc' = "unspawned"
          /\ promise' = runClaudeSingle(1, 1, sessionIdArg, ThrowOutcome)
          /\ UNCHANGED timeoutArmed
     ELSE /\ proc' = "running"
          /\ timeoutArmed' = TRUE
          /\ UNCHANGED promise
  /\ UNCHANGED << sessionIdArg, procElapsed, resolves, fired, serverVars,
                  sumVars, chunkVars, estVars, lifeVars, outVars, bridgeVars,
                  limitVars, taskVars, deliveryVars, diskVars, sessVars >>

\* proc.on('close'): clearTimeout and resolve
ProcClose(o) ==
  /\ proc \in {"running", "killed", "errored"}
  /\ proc' = "closed"
  /\ timeoutArmed' = FALSE
  /\ promise' = Resolve(promise, runClaudeSingle(1, 1, sessionIdArg, o))
  /\ resolves' = resolves + 1
  /\ UNCHANGED << sessionIdArg, procElapsed, fired, serverVars, sumVars,
                  chunkVars, estVars, lifeVars, outVars, bridgeVars,
                  limitVars, taskVars, deliveryVars, diskVars, sessVars >>

\* proc.on('error'): clearTimeout and resolve; a close may follow
ProcError ==
  /\ proc \in {"running", "killed"}
  /\ proc' = "errored"
  /\ timeoutArmed' = FALSE
  /\ promise' = Resolve(promise, runClaudeSingle(1, 1, sessionIdArg, ErrorOutcome))
  /\ resolves' = resolves + 1
  /\ UNCHANGED << sessionIdArg, procElapsed, fired, serverVars, sumVars,
                  chunkVars, estVars, lifeVars, outVars, bridgeVars,
                  limitVars, taskVars, deliveryVars, diskVars, sessVars >>

\* the timeout handler: proc.kill('SIGTERM') and resolve
TimeoutFire ==
  /\ timeoutArmed
  /\ procElapsed >= EXECUTION_TIMEOUT_MS
  /\ proc' = IF proc = "running" THEN "killed" ELSE proc
  /\ timeoutArmed' = FALSE
  /\ fired' = TRUE
  /\ promise' = Resolve(promise,
                        runClaudeSingle(1, 1, sessionIdArg, TimeoutOutcome))
  /\ resolves' = resolves + 1
  /\ UNCHANGED << sessionIdArg, procElapsed, serverVars, sumVars, chunkVars,
                  estVars, lifeVars, outVars, bridgeVars, limitVars,
                  taskVars, deliveryVars, diskVars, sessVars >>

\* time passes while the process may still send an event and the timeout
\* is not due
SingleAdvance ==
  /\ proc \in {"running", "killed", "errored"}
  /\ ~(timeoutArmed /\ procElapsed >= EXECUTION_TIMEOUT_MS)
  /\ procElapsed + SingleStep <= MaxElapsed
  /\ procElapsed' = procElapsed + SingleStep
  /\ UNCHANGED << proc, sessionIdArg, timeoutArmed, promise, resolves, fired,
                  serverVars, sumVars, chunkVars, estVars, lifeVars, outVars,
                  bridgeVars, limitVars, taskVars, deliveryVars, diskVars,
                  sessVars >>

SingleSpawns == \E threw \in BOOLEAN : SingleSpawn(threw)
SingleClose == \E o \in SingleCloses : ProcClose(o)

SingleNext ==
  \/ SingleSpawns
  \/ SingleClose
  \/ ProcError
  \/ TimeoutFire
  \/ SingleAdvance

SpecSingle == SingleInit /\ [][SingleNext]_vars

(* ------------------------------- claims -------------------------------- *)
\* the part whose failure ended the run of request r (0: none failed)
FailedPart(r) ==
  IF /\ result[r].set /\ ~result[r].thrown /\ returned[r] # << >>
     /\ ~returned[r][Len(returned[r])].success
  THEN Len(returned[r]) ELSE 0

\* the non-empty outputs among the first n results, in order
RECURSIVE OutputsBefore(_, _)
OutputsBefore(rs, n) ==
  IF n = 0 THEN << >>
  ELSE IF rs[n].success /\ rs[n].output # EmptyText
       THEN Append(OutputsBefore(rs, n - 1), rs[n].output)
       ELSE OutputsBefore(rs, n - 1)

\* C1: in a multi-part run the parts are invoked one at a time in index
\* order, each at most once, part j+1 only after part j returned success,
\* and no part is invoked after a part that failed.
C1_SequentialInOrder ==
  \A r \in Reqs : chunks[r] >= 1 =>
    /\ Len(invoked[r]) <= chunks[r]
    /\ \A j \in 1..Len(invoked[r]) : invoked[r][j].part = j
    /\ Len(returned[r]) <= Len(invoked[r])
    /\ Len(invoked[r]) <= Len(returned[r]) + 1
    /\ \A j \in 1..Len(returned[r]) :
         ~returned[r][j].success => Len(invoked[r]) = j
    /\ \A j \in 2..Len(invoked[r]) : returned[r][j - 1].success

C1_Witness ==
  /\ chunks[1] = 3 /\ result[1].set /\ Len(returned[1]) = 2
  /\ returned[1][1].success /\ ~returned[1][2].success
  /\ Len(invoked[1]) = 2

RECURSIVE LastHandle(_, _)
LastHandle(r, j) ==
  IF j = 0 THEN initialSessionId[r]
  ELSE IF returned[r][j].success /\ returned[r][j].sessionId # NoSid
       THEN returned[r][j].sessionId
       ELSE LastHandle(r, j - 1)

\* C3: part j+1 is invoked with the handle part j returned, or with the
\* handle passed to part j when part j returned none, and the result of a
\* multi-part run, successful or failed, carries the handle of the last part
\* that succeeded (the initial handle when none did).
C3_ContinuationThreading ==
  \A r \in Reqs : chunks[r] >= 1 =>
    /\ \A j \in 1..Len(invoked[r]) : invoked[r][j].sid = LastHandle(r, j - 1)
    /\ \A j \in 2..Len(invoked[r]) :
         invoked[r][j].sid =
           IF returned[r][j - 1].sessionId # NoSid
           THEN returned[r][j - 1].sessionId
           ELSE invoked[r][j - 1].sid
    /\ (result[r].set /\ ~result[r].thrown) =>
         result[r].sessionId = LastHandle(r, Len(returned[r]))

C3_Witness ==
  /\ chunks[1] = 3 /\ FailedPart(1) = 3
  /\ returned[1][1].sessionId = JsonSid(1, 1)
  /\ returned[1][2].sessionId = StderrSid(1, 2)
  /\ invoked[1][2].sid = JsonSid(1, 1)
  /\ result[1].sessionId = StderrSid(1, 2)

(* ------------------- claims on ContextManager.execute ------------------- *)
\* request r stands between the start of ContextManager.execute and the
\* write of its caller (sessionManager.update)
InTurn(r) == pc[r] \in {"sized", "await", "ran", "update"}

\* ContextManager.execute has returned for request r and its caller has not
\* yet written the session
Returned(r) == pc[r] = "update"

\* the ContextState the session store holds for session s
StoredContext(s) ==
  IF cache[s] # NoRef /\ sessObj[cache[s]].context_state # NoRef
  THEN ctxObj[sessObj[cache[s]].context_state]
  ELSE NullContext

InputTokens(r) == estimate(body[r].prompt.len)
OutputTokens(r) == estimate(TextLen(executeResult[r].output))

\* the execution of request r produced output: it succeeded with output, or
\* it was a multi-part run that failed after a part had succeeded with output
ProducedOutput(r) ==
  /\ executeResult[r].output # EmptyText
  /\ \/ executeResult[r].success
     \/ chunks[r] >= 1 /\ \E j \in 1..Len(returned[r]) : returned[r][j].success

\* C5 as stated: after a turn that produced output and in which no
\* compaction ran, a multi-part turn that failed after a part succeeded
\* included, the estimate is the prior estimate plus the tokens of the input
\* and of the output.
C5_TokensAccumulated ==
  \A r \in Reqs : (Returned(r) /\ ProducedOutput(r) /\ ~compacted[r]) =>
    ctxObj[contextState[r]].estimated_tokens =
      priorState[r].estimated_tokens + InputTokens(r) + OutputTokens(r)

\* C6 as stated: after a successful turn with output the estimate is
\* estimate(summary) + input + output exactly when compaction ran in this
\* turn, and prior + input + output in every other turn, whatever the time
\* since a compaction and however long the execution took.
C6_ResetOnlyWhenCompacted ==
  \A r \in Reqs :
    (Returned(r) /\ executeResult[r].success
       /\ executeResult[r].output # EmptyText) =>
      LET c == ctxObj[contextState[r]] IN
      c.estimated_tokens =
        IF compacted[r]
        THEN estimate(SummaryLen(c.conversation_summary))
               + InputTokens(r) + OutputTokens(r)
        ELSE priorState[r].estimated_tokens + InputTokens(r) + OutputTokens(r)

\* C7 as stated: in the ContextState every turn returns, needs_summarization
\* is true exactly when estimated_tokens is at or above the soft limit.
C7_NeedsSummarizationConsistent ==
  \A r \in Reqs : Returned(r) =>
    LET c == ctxObj[executeResult[r].contextState] IN
    c.needs_summarization <=> (c.estimated_tokens >= 120000)

C10_StoredStateUntouched ==
  \A r \in Reqs : (InTurn(r) /\ priorGiven[r]) =>
    StoredContext(body[r].session_id) = priorState[r]

\* C4 as stated: for every session at most one turn is in flight: two turns
\* of one session never overlap between the read of the session's
\* ContextState and the write of it.
C4_OneTurnPerSession ==
  \A r1 \in Reqs, r2 \in Reqs :
    (r1 # r2 /\ InTurn(r1) /\ InTurn(r2)) =>
      body[r1].session_id # body[r2].session_id

\* C11: ContextManager.execute never throws: whatever the executor did
\* (success, failure result, thrown error), with or without compaction, its
\* caller gets a result with a success flag and a ContextState whose
\* estimated_tokens is a non-negative integer; a thrown error is returned as
\* a failure that carries the error.
C11_ExecuteAlwaysReturns ==
  \A r \in Reqs : Returned(r) =>
    LET er == executeResult[r] IN
    /\ er.set
    /\ er.success \in BOOLEAN
    /\ er.contextState = contextState[r]
    /\ er.contextState \in CtxRefs
    /\ ctxObj[er.contextState].estimated_tokens \in Nat
    /\ ctxObj[er.contextState].needs_summarization \in BOOLEAN
    /\ result[r].thrown =>
         (~er.success /\ er.error = result[r].error /\ er.output = EmptyText)
    /\ ~result[r].thrown => er.success = result[r].success

\* a thrown error after compaction ran in the turn
C11_Witness ==
  \E r \in Reqs :
    /\ Returned(r) /\ result[r].thrown /\ compacted[r]
    /\ ~executeResult[r].success
    /\ ctxObj[executeResult[r].contextState].conversation_summary.set

\* C12 as stated: a session's estimated_tokens never reaches the hard limit
\* of 180000, in the state a turn returns and in the state the store holds.
C12_BelowHardLimit ==
  /\ \A r \in Reqs : Returned(r) =>
       ctxObj[executeResult[r].contextState].estimated_tokens < 180000
  /\ \A s \in SessionIds : StoredContext(s).estimated_tokens < 180000

(* ----------------- claims on HistorySummarizer.summarize ---------------- *)
\* summarize has settled and the runner it called had rejected
RunnerFailed ==
  /\ sumPc = "done"
  /\ runnerSettled # << >>
  /\ ~runnerSettled[Len(runnerSettled)].ok

Compacted ==
  /\ sumPc = "done"
  /\ Len(messages) > 5
  /\ summarization.set
  /\ ~summarization.thrown

\* C19: for every transcript longer than 5 turns the kept tail
\* (recentMessages) is exactly the last 5 turns of the transcript, each with
\* its role, content and timestamp, in order.
C19_TailIsLastFive ==
  (sumPc = "done" /\ Len(messages) > 5) =>
    /\ Compacted
    /\ Len(summarization.recentMessages) = 5
    /\ \A i \in 1..5 :
         LET kept == summarization.recentMessages[i]
             turn == messages[Len(messages) - 5 + i]
         IN  /\ kept.role = turn.role
             /\ kept.content = turn.content
             /\ kept.timestamp = turn.timestamp

C19_Witness ==
  /\ Compacted
  /\ Len(messages) = 26
  /\ summarization.recentMessages[1].timestamp = 22
  /\ summarization.recentMessages[5].timestamp = 26
  /\ summarization.recentMessages[5].content # EmptyText

\* the compaction window: the messages the runner was asked to summarize
Window == messagesToSummarize

\* C20 as stated: the window is the up-to-20 turns right before the 5-turn
\* tail: exactly 20 turns for a transcript of more than 25, and turns 1-20,
\* nothing discarded, for a transcript of exactly 25.
C20_WindowOfTwenty ==
  Compacted =>
    LET n == Len(messages)
        first == IF n > 25 THEN n - 24 ELSE 1
    IN  /\ Window = SubSeq(messages, first, n - 5)
        /\ n > 25 => Len(Window) = 20
        /\ n = 25 => Window = SubSeq(messages, 1, 20)

\* C20 amended: the window is the up-to-15 turns right before the 5-turn
\* tail: for a transcript of n > 20 turns it is exactly the 15 turns
\* n-19..n-5 and the n-20 oldest turns are discarded (for 25 turns: turns
\* 6-20, turns 1-5 discarded); for 6 <= n <= 20 it is all the turns before
\* the tail.  The runner is handed exactly these turns.
C20_WindowOfFifteen ==
  Compacted =>
    LET n == Len(messages)
        first == IF n > 20 THEN n - 19 ELSE 1
    IN  /\ Window = SubSeq(messages, first, n - 5)
        /\ Len(Window) <= 15
        /\ n > 20 => Len(Window) = 15
        /\ summaryRequest = << SummaryRequest(SubSeq(messages, first, n - 5)) >>

C20_Witness ==
  /\ Compacted
  /\ Len(messages) = 25
  /\ Len(Window) = 15
  /\ Window[1].timestamp = 6
  /\ Window[15].timestamp = 20

\* the tokens one turn counts for: Math.ceil(content.length / 4) + 10
TurnTokens(m) == (TextLen(m.content) + 3) \div 4 + 10

RECURSIVE SumTurnTokens(_)
SumTurnTokens(turns) ==
  IF turns = << >> THEN 0
  ELSE TurnTokens(Head(turns)) + SumTurnTokens(Tail(turns))

\* C21: for a transcript of at most 5 turns summarize returns the transcript
\* unchanged as the kept tail, the empty string as summary, and the same
\* number of tokens after as before.
C21_NoCompactionUpToFive ==
  (sumPc = "done" /\ Len(messages) <= 5) =>
    /\ summarization.set
    /\ ~summarization.thrown
    /\ summarization.recentMessages = messages
    /\ summarization.summary = EmptyText
    /\ summarization.reducedTokens = summarization.originalTokens
    /\ summarization.originalTokens = SumTurnTokens(messages)

C21_Witness ==
  /\ sumPc = "done"
  /\ Len(messages) = 5
  /\ summarization.recentMessages = messages
  /\ summarization.summary = EmptyText
  /\ summarization.originalTokens > 50
  /\ summarization.reducedTokens = summarization.originalTokens

\* C22: the runner is called exactly once in every call of summarize on a
\* transcript of more than 5 turns (and has settled once when summarize has),
\* and is never called for a transcript of at most 5 turns.
C22_RunnerCalledOnce ==
  /\ Len(messages) <= 5 => summaryRequest = << >> /\ runnerSettled = << >>
  /\ (Len(messages) > 5 /\ sumPc # "call") => Len(summaryRequest) = 1
  /\ (Len(messages) > 5 /\ sumPc = "done") => Len(runnerSettled) = 1
  /\ Len(runnerSettled) <= Len(summaryRequest)

C22_Witness ==
  /\ sumPc = "done"
  /\ Len(messages) = 6
  /\ Len(summaryRequest) = 1
  /\ Len(runnerSettled) = 1
  /\ claudeRunner = "custom"

\* C23: after a compaction originalTokens is the estimate over the whole
\* transcript, the discarded turns included, and reducedTokens is the
\* estimate of the summary plus the estimate over the kept tail, a turn
\* counting for the same number of tokens in both.
C23_TokenAccounting ==
  Compacted =>
    /\ summarization.originalTokens = SumTurnTokens(messages)
    /\ summarization.reducedTokens =
         (TextLen(summarization.summary) + 3) \div 4
           + SumTurnTokens(summarization.recentMessages)

\* a transcript of 26 turns, six of them discarded, compacted to a summary
\* that is not empty
C23_Witness ==
  /\ Compacted
  /\ Len(messages) = 26
  /\ Len(messagesToSummarize) = 15
  /\ summarization.summary # EmptyText
  /\ summarization.originalTokens = SumTurnTokens(messages)
  /\ summarization.reducedTokens < summarization.originalTokens

(* --------------------- claims on InputChunker.chunk --------------------- *)
\* chunks.join('')
Joined == Flatten(textChunks)

\* C13: concatenating the chunks in order gives the text: while the loop
\* runs the chunks pushed so far are the text up to currentPosition, and what
\* chunk returns is the whole text, with preserveCodeBlocks on or off.
C13_Lossless ==
  /\ chunkPc = "loop" => Joined = substring(text, 0, currentPosition)
  /\ chunkPc = "done" => Joined = text

\* a text with a code block was split into three chunks or more, one of them
\* the code block, another ended at a boundary
C13_Witness ==
  /\ chunkPc = "done"
  /\ Len(textChunks) >= 3
  /\ \E i \in 1..Len(splits) : splits[i].by = "block"
  /\ \E i \in 1..Len(splits) : splits[i].by \in {"paragraph", "sentence", "line"}
  /\ Joined = text
\* the fenced regions of the text
Regions == findCodeBlocks(text)

\* chunk.match of the marker pattern, global: the markers of a chunk, counted
\* from the left without overlap
RECURSIVE MarkersFrom(_, _)
MarkersFrom(chunk, p) ==
  IF NextFence(chunk, p) = -1 THEN 0
  ELSE 1 + MarkersFrom(chunk, NextFence(chunk, p) + 3)

MarkerCount(chunk) == MarkersFrom(chunk, 0)

\* no chunk pushed so far ends strictly inside a fenced region
NoRegionSplit ==
  \A i \in 1..Len(splits) : ~isInsideCodeBlock(splits[i].end, Regions)

\* every chunk pushed so far holds an even number of markers
EvenMarkers ==
  \A i \in 1..Len(textChunks) : MarkerCount(textChunks[i]) % 2 = 0

\* chunk i ended at a hard cut whose place, maxChunkSize characters after
\* its start, was inside a fenced region
CutInsideRegion(i) ==
  /\ splits[i].by = "hard"
  /\ isInsideCodeBlock(SearchEnd(splits[i].start, maxChunkSize, Len(text)),
                       Regions)

\* such a chunk ends where that region starts
PulledBack ==
  \A i \in 1..Len(splits) :
    CutInsideRegion(i) =>
      splits[i].end =
        BlockStartOf(SearchEnd(splits[i].start, maxChunkSize, Len(text)),
                     Regions)

\* every marker of the text opens or closes a fenced region
AllMarkersPaired == MarkerCount(text) = 2 * Len(Regions)

\* C14 as stated: with preserveCodeBlocks on and a fenced region in the text,
\* every chunk holds an even number of markers, no region is split across
\* chunks, and a hard cut inside a region is pulled back to its start.
C14_EvenMarkersAlways ==
  (preserveCodeBlocks /\ Regions # << >>) =>
    (EvenMarkers /\ NoRegionSplit /\ PulledBack)

\* C14, amended: with preserveCodeBlocks on and a fenced region in the text,
\* no region is split across chunks and a hard cut inside a region is pulled
\* back to its start; every chunk holds an even number of markers when every
\* marker of the text belongs to a region (a marker left without a closing
\* one is not a region and stays, alone, in some chunk).
C14_Atomic ==
  (preserveCodeBlocks /\ Regions # << >>) =>
    /\ NoRegionSplit
    /\ PulledBack
    /\ AllMarkersPaired => EvenMarkers

\* a hard cut was pulled back to the start of a region, the region went out
\* whole as the next chunk, and all markers of the text are paired
C14_Witness ==
  /\ preserveCodeBlocks
  /\ chunkPc = "done"
  /\ AllMarkersPaired
  /\ \E i \in 1..(Len(splits) - 1) :
       /\ CutInsideRegion(i)
       /\ splits[i].end > splits[i].start
       /\ splits[i + 1].by = "block"
       /\ MarkerCount(textChunks[i + 1]) = 2
\* the fenced regions that are by themselves longer than maxChunkSize
OversizedRegions ==
  {j \in 1..Len(Regions) : Regions[j].end - Regions[j].start > maxChunkSize}

\* chunk i is region j, alone
IsRegion(i, j) ==
  /\ splits[i].start = Regions[j].start
  /\ splits[i].end = Regions[j].end
  /\ textChunks[i] = substring(text, Regions[j].start, Regions[j].end)

\* C15: every chunk is at most maxChunkSize long, except a fenced region
\* longer than maxChunkSize (preserveCodeBlocks on), which is a chunk by
\* itself; in what chunk returns each such region is exactly one chunk.
C15_SizeBound ==
  /\ \A i \in 1..Len(textChunks) :
       IF Len(textChunks[i]) <= maxChunkSize THEN TRUE
       ELSE preserveCodeBlocks /\ \E j \in OversizedRegions : IsRegion(i, j)
  /\ (chunkPc = "done" /\ preserveCodeBlocks /\ Len(text) > maxChunkSize) =>
       \A j \in OversizedRegions :
         Cardinality({i \in 1..Len(textChunks) : IsRegion(i, j)}) = 1

\* chunk returned a region longer than maxChunkSize as one chunk, between two
\* chunks that are not empty and keep to maxChunkSize
C15_Witness ==
  /\ chunkPc = "done"
  /\ maxChunkSize > 0
  /\ \E i \in 2..(Len(textChunks) - 1) :
       /\ Len(textChunks[i]) > maxChunkSize
       /\ \E j \in OversizedRegions : IsRegion(i, j)
       /\ Len(textChunks[i - 1]) \in 1..maxChunkSize
       /\ Len(textChunks[i + 1]) \in 1..maxChunkSize
\* every turn of the loop so far pushed a chunk that is not empty, so that
\* currentPosition moved on; a turn that leaves currentPosition where it was
\* repeats itself for ever
LoopAdvances ==
  \A i \in 1..Len(splits) :
    splits[i].by # "whole" => splits[i].end > splits[i].start

\* what chunk returns has one chunk at least, and is the text alone when the
\* text is not longer than maxChunkSize
ReturnsSegments ==
  chunkPc = "done" =>
    /\ Len(textChunks) >= 1
    /\ Len(text) <= maxChunkSize => textChunks = << text >>

\* C16: for every text and every maxChunkSize chunk terminates (every turn
\* of its loop moves currentPosition on) and returns one chunk at least, the
\* text itself when it is not longer than maxChunkSize.
C16_AlwaysTerminates == LoopAdvances /\ ReturnsSegments
\* the window findBestSplitPoint searched for chunk i
WindowOf(i) ==
  substring(text, splits[i].start,
            SearchEnd(splits[i].start, maxChunkSize, Len(text)))

\* the window of chunk i holds a boundary of this pattern, at any place, and
\* the position right after it is not inside a code block
BoundaryOutside(i, pattern) ==
  \E p \in 0..Len(WindowOf(i)) :
    /\ MatchAt(WindowOf(i), p, pattern)
    /\ ~isInsideCodeBlock(splits[i].start + p + PatternLen(pattern),
                          codeBlocks)

\* chunk i ends right after a boundary of this pattern
EndsAfter(i, pattern) ==
  /\ splits[i].end - PatternLen(pattern) >= splits[i].start
  /\ MatchAt(text, splits[i].end - PatternLen(pattern), pattern)

\* chunk i was cut by findBestSplitPoint
CutBySplitPoint(i) == splits[i].by \in {"paragraph", "sentence", "line", "hard"}

\* C17: a chunk cut by findBestSplitPoint ends right after a paragraph break
\* when its window holds one with the position after it outside the code
\* blocks; else right after a sentence terminator followed by whitespace
\* when the window holds such a one; else right after a line break when the
\* window holds such a one; a hard cut is left for windows without any.
C17_DescendingPriority ==
  \A i \in 1..Len(splits) :
    CutBySplitPoint(i) =>
      IF BoundaryOutside(i, "paragraph") THEN EndsAfter(i, "paragraph")
      ELSE IF BoundaryOutside(i, "sentence") THEN EndsAfter(i, "sentence")
      ELSE IF BoundaryOutside(i, "line") THEN EndsAfter(i, "line")
      ELSE TRUE

\* the text holds no line break (so no paragraph break), no sentence
\* terminator and no fence marker
NoBoundaries == \A p \in 1..Len(text) : text[p] \in {Plain, Blank}

\* Math.ceil(n / d)
Ceil(n, d) == (n + d - 1) \div d

\* C18: a text of n > maxChunkSize characters without boundaries comes back
\* as ceil(n / maxChunkSize) chunks, all maxChunkSize long but the last,
\* which holds what is left.
C18_HardCut ==
  (/\ chunkPc = "done"
   /\ NoBoundaries
   /\ maxChunkSize >= 1
   /\ Len(text) > maxChunkSize) =>
    /\ Len(textChunks) = Ceil(Len(text), maxChunkSize)
    /\ \A i \in 1..(Len(textChunks) - 1) :
         Len(textChunks[i]) = maxChunkSize
    /\ Len(textChunks[Len(textChunks)]) =
         Len(text) - (Len(textChunks) - 1) * maxChunkSize

\* ten characters cut at three: chunks of 3, 3, 3 and 1 characters
C18_Witness ==
  /\ chunkPc = "done"
  /\ NoBoundaries
  /\ Len(text) = 10
  /\ maxChunkSize = 3
  /\ Len(textChunks) = 4
  /\ \A i \in 1..3 : Len(textChunks[i]) = 3
  /\ Len(textChunks[4]) = 1
(* ------------------- claims on ContextEstimator.estimate ----------------- *)
\* C24: estimate of a text is its length divided by 4, rounded up: 0 for the
\* empty string, and never more for the shorter of two texts than for the
\* longer.
C24_EstimateIsCeiling ==
  /\ \A i \in 1..Len(estimateResults) :
       /\ 4 * estimateResults[i] >= estimateArgs[i]
       /\ 4 * (estimateResults[i] - 1) < estimateArgs[i]
       /\ estimateArgs[i] = 0 => estimateResults[i] = 0
  /\ (Len(estimateResults) = 2 /\ estimateArgs[1] < estimateArgs[2]) =>
       estimateResults[1] <= estimateResults[2]

\* the 12 characters of "Hello world!" give 3 tokens, after the 3 of "Hi!"
\* gave 1
C24_Witness ==
  /\ estimateArgs = << 3, 12 >>
  /\ estimateResults = << 1, 3 >>
(* ------------------ claims on the ContextState lifecycle ----------------- *)
\* execute of request r has taken its ContextState
Started(r) == pc[r] \in {"sized", "await", "ran", "update", "incr"}

\* request r got its session from create: it is the first turn of the
\* session, or the first after a reset or an expiry (a SessionData object made
\* by create and a ContextState object made by execute are named after the
\* request)
StartsAnew(r) == Started(r) /\ session[r] = r

\* the ContextState stored for session s was made before the session was
\* last deleted
StaleContext(s) ==
  /\ cache[s] # NoRef
  /\ sessObj[cache[s]].context_state # NoRef
  /\ arrivedAfter[sessObj[cache[s]].context_state] < deleted[s]

\* C25: a turn on a session just created starts from estimated_tokens 0
\* without summary; once a session was reset or has expired the ContextState
\* it had is gone: none made before is stored for the session again, and no
\* turn received after starts from one.
C25_ContextDiscarded ==
  /\ \A r \in Reqs : StartsAnew(r) =>
       /\ priorState[r].estimated_tokens = 0
       /\ ~priorState[r].conversation_summary.set
  /\ \A s \in SessionIds : ~StaleContext(s)
  /\ \A r \in Reqs : (Started(r) /\ priorGiven[r]) =>
       arrivedAfter[contextState[r]] = arrivedAfter[r]
(* --------------------- claims on the request queue ---------------------- *)
\* the tasks the queue has started (wrapped() or next() was called) whose
\* finally block has not run yet
StartedTasks == { r \in Reqs : pc[r] \in {"start", "sized", "await", "ran"} }

\* C26: the request queue never runs more than maxConcurrent (2) tasks at
\* the same time: in every reachable state the running counter equals the
\* number of tasks started and not yet settled and is between 0 and 2; a
\* task waits in the queue only while both slots are taken
C26_AtMostTwoRunning ==
  /\ running = Cardinality(StartedTasks)
  /\ running \in 0..maxConcurrent
  /\ \A r \in Reqs : pc[r] = "queued" <=>
       \E i \in 1..Len(queue) : queue[i] = r
  /\ queue # << >> => running = maxConcurrent

\* two tasks run and a third one waits
C26_Witness ==
  /\ running = maxConcurrent
  /\ Cardinality(StartedTasks) = maxConcurrent
  /\ Len(queue) = 1

(* ------------------ claims on the chunks of a reply --------------------- *)
\* the chunk is longer than MAX_MESSAGE_LENGTH and no longer than it with
\* placeholders in the place of its code blocks
LargeByCodeBlocks(c) ==
  /\ c.code # << >>
  /\ c.raw <= MAX_MESSAGE_LENGTH

\* C30: every chunk produced by SynologyClient.chunkMessage has content
\* (without its indicator) of at most 3500 characters, except a chunk that
\* contains a code block which is what makes it larger
C30_ContentWithinLimit ==
  outDone =>
    \A i \in 1..Len(outChunks) :
      \/ outChunks[i].content <= MAX_MESSAGE_LENGTH
      \/ LargeByCodeBlocks(outChunks[i])

(* ------------------ claims on the delivery of replies ------------------- *)
\* the README's 0.5 s between messages
MIN_POST_GAP_MS == 500

\* C27: any two consecutive POSTs to the Synology incoming webhook, across
\* all messages, chunks and retries, are at least 500 ms apart
C27_PostsApart ==
  Len(posts) = 2 => posts[2].at - posts[1].at >= MIN_POST_GAP_MS

\* the second chunk of a reply is POSTed when the timer of throttle is due,
\* THROTTLE_MS after the first
C27_Witness ==
  /\ Len(posts) = 2
  /\ posts[1].msg.hook = posts[2].msg.hook
  /\ posts[1].msg.nth = 2 /\ posts[2].msg.nth = 2
  /\ posts[1].msg.part = 1 /\ posts[2].msg.part = 2
  /\ posts[2].at - posts[1].at = THROTTLE_MS

\* the request of handler w carried a valid token and a command
ValidRequest(w) == command[w].tokenOk /\ command[w].kind # "empty"

\* C28: every webhook request that carries a valid token and a non-empty
\* command is forwarded to the executor or answered with a message to the
\* user: no handler returns without one of the two
C28_NoneSkipped ==
  \A w \in Hooks :
    (hpc[w] = "done" /\ ValidRequest(w)) => (forwarded[w] \/ replied[w])

\* C29: if sending chunk N fails, delivery continues with chunk N+1: the
\* POST that follows a failed POST is of another message
C29_ContinuesWithNext ==
  (Len(posts) = 2 /\ posts[1].outcome \in {"api", "network"}) =>
    posts[2].msg # posts[1].msg

(* ------------- claims on one invocation of the executor ----------------- *)
\* the outcome of an invocation that ran into the timeout
TimedOut ==
  /\ promise.set /\ ~promise.thrown
  /\ ~promise.success
  /\ promise.output = EmptyText
  /\ promise.error = ErrorOf("Execution timeout (5 minutes)")

\* C31: each invocation of runClaudeSingle yields exactly one outcome: once
\* the promise has settled its value never changes; when the process has not
\* finished within EXECUTION_TIMEOUT_MS the outcome is a failure with empty
\* output, no other process is started, and a close or error event after
\* the timeout does not change the outcome; the promise is settled as soon
\* as the timeout is no longer set
C31_OneOutcome ==
  /\ [](fired => (TimedOut /\ proc # "running"))
  /\ []((proc # "none" /\ ~timeoutArmed) => promise.set)
  /\ [][promise.set => promise' = promise]_vars

\* the process closed with exit code 0 after the timeout handler ran
C31_Witness ==
  /\ fired
  /\ proc = "closed"
  /\ resolves = 2
  /\ procElapsed > EXECUTION_TIMEOUT_MS
  /\ TimedOut

(* ------------- claims on the output of a multi-part run ----------------- *)
\* the multi-part run of request r returned after every part succeeded
AllPartsSucceeded(r) ==
  /\ chunks[r] >= 1
  /\ result[r].set /\ ~result[r].thrown
  /\ Len(returned[r]) = chunks[r]
  /\ \A j \in 1..chunks[r] : returned[r][j].success

\* C32 as stated: when all parts of a multi-part run succeed the result is a
\* success whose output is the outputs of all parts in part order joined by
\* the part-boundary marker, one output per part.
C32_OneOutputPerPart ==
  \A r \in Reqs : AllPartsSucceeded(r) =>
    /\ result[r].success
    /\ result[r].output =
         Join([j \in 1..chunks[r] |-> returned[r][j].output])

\* C32 amended: when all parts succeed the result is a success whose output
\* is the non-empty outputs of the parts in part order joined by the
\* part-boundary marker; a part whose output is empty contributes neither
\* an output nor a marker.
C32_NonEmptyOutputsJoined ==
  \A r \in Reqs : AllPartsSucceeded(r) =>
    /\ result[r].success
    /\ result[r].error = NoError
    /\ result[r].output = Join(OutputsBefore(returned[r], chunks[r]))

\* three parts succeeded, the second with empty output
C32_Witness ==
  /\ chunks[1] = 3 /\ AllPartsSucceeded(1)
  /\ returned[1][1].output # EmptyText
  /\ returned[1][2].output = EmptyText
  /\ returned[1][3].output # EmptyText
  /\ result[1].output =
       returned[1][1].output \o SeparatorText \o returned[1][3].output

(* ------------------- claims on the steps of one turn -------------------- *)
\* the steps of a turn in the order of the code: waiting in the queue,
\* Sizing with Compacting ("start" to "sized"), Segmenting and the first
\* invocation ("sized" to "await"), Executing ("await" to "ran"), Finalizing
\* ("ran" to "update"), the handler's update of the store and its response
TurnOrder ==
  { << "idle", "start" >>, << "idle", "queued" >>, << "queued", "start" >>,
    << "start", "sized" >>, << "sized", "await" >>, << "await", "ran" >>,
    << "ran", "update" >>, << "update", "incr" >>, << "incr", "done" >> }

\* the token estimate of the ContextState request r works on
TokensOf(r, ctx) == ctx[contextState[r]].estimated_tokens

\* C33: the steps of a turn follow each other in the order Sizing,
\* Compacting, Segmenting, Executing, Finalizing: no part is invoked before
\* the turn was sized, and when the turn compacts the summary is in place
\* before the first invocation; the number of parts is fixed with the
\* first invocation and chunk_count does not change afterwards; the token
\* estimate does not change while parts are invoked and is updated with the
\* input and output tokens in the step after the last invocation returned.
C33_StepOrder ==
  /\ [](\A r \in Reqs :
         /\ pc[r] \in {"idle", "queued", "start", "sized"} => invoked[r] = << >>
         /\ (compacted[r] /\ invoked[r] # << >> /\ pc[r] \in {"await", "ran"}) =>
              /\ ctxObj[contextState[r]].conversation_summary.set
              /\ ctxObj[contextState[r]].last_summarization # NoTime
         /\ pc[r] \in {"await", "ran"} =>
              \A j \in 1..Len(invoked[r]) :
                invoked[r][j].part <= IF chunks[r] = 0 THEN 1 ELSE chunks[r])
  /\ [][\A r \in Reqs :
         /\ pc'[r] # pc[r] => << pc[r], pc'[r] >> \in TurnOrder
         /\ pc[r] = "await" =>
              /\ chunks'[r] = chunks[r]
              /\ compacted'[r] = compacted[r]
              /\ ctxObj'[contextState[r]] = ctxObj[contextState[r]]
         /\ (pc[r] = "sized" /\ pc'[r] = "await") =>
              TokensOf(r, ctxObj') = TokensOf(r, ctxObj)
         /\ (pc[r] = "ran" /\ pc'[r] = "update") =>
              /\ Len(returned[r]) = Len(invoked[r])
              /\ result[r].set
              /\ ctxObj'[contextState[r]].chunk_count =
                   ctxObj[contextState[r]].chunk_count
              /\ (result[r].success /\ result[r].output # EmptyText) =>
                   TokensOf(r, ctxObj') - newPromptTokens[r]
                       - estimate(TextLen(result[r].output))
                     \in { TokensOf(r, ctxObj),
                           estimate(SummaryLen(
                             ctxObj[contextState[r]].conversation_summary)) }]_vars

\* a turn that compacted and was cut in two parts is finalized after both
\* parts returned
C33_Witness ==
  \E r \in Reqs :
    /\ pc[r] = "update"
    /\ compacted[r]
    /\ chunks[r] = 2
    /\ Len(returned[r]) = 2
    /\ executeResult[r].set /\ executeResult[r].success

(* ---------------- claims on the turns summarize considers --------------- *)
\* the turns of the transcript among its last k
MostRecent(k) ==
  SubSeq(messages, IF Len(messages) > k THEN Len(messages) - k + 1 ELSE 1,
         Len(messages))

\* C34: of a transcript of n > 20 turns summarize considers the 20 most
\* recent only: the turns handed to the summarizer are exactly the 15 turns
\* n-19..n-5 right before the 5-turn tail and none of the n-20 oldest turns
\* is handed over or kept; for 6 <= n <= 20 all the turns before the tail
\* are handed over.
C34_TwentyMostRecent ==
  Compacted =>
    LET n == Len(messages)
        handed == messagesToSummarize
        kept == summarization.recentMessages
    IN  /\ handed \o kept = MostRecent(MAX_SUMMARIZABLE_MESSAGES)
        /\ Len(kept) = RECENT_MESSAGE_COUNT
        /\ summaryRequest = << SummaryRequest(handed) >>
        /\ n > 20 =>
             /\ Len(handed) = 15
             /\ \A i \in 1..15 : handed[i] = messages[n - 20 + i]
             /\ \A i \in 1..(n - 20) :
                  /\ \A j \in 1..Len(handed) : handed[j] # messages[i]
                  /\ \A j \in 1..Len(kept) : kept[j] # messages[i]
        /\ n <= 20 =>
             /\ Len(handed) = n - 5
             /\ \A i \in 1..(n - 5) : handed[i] = messages[i]

\* 26 turns: the oldest 6 are discarded, turns 7-21 are handed over
C34_Witness ==
  /\ Compacted
  /\ Len(messages) = 26
  /\ Len(messagesToSummarize) = 15
  /\ messagesToSummarize[1] = messages[7]
  /\ messagesToSummarize[15] = messages[21]
  /\ summarization.recentMessages[1] = messages[22]

(* -------------- claims on the rate limits of POST /webhook -------------- *)
\* how many of the first i accepted requests of user u were accepted less
\* than 60 s before the i-th, itself included
AcceptedWithinWindow(u, i) ==
  Cardinality({ j \in 1..i :
                  accepted[u][j] > accepted[u][i] - HISTORY_WINDOW_MS })

\* C35 as stated: at most 20 requests of a user are accepted within any
\* 60 s, and a request (with a valid token) arriving when 20 were accepted
\* in the last 60 s is answered with the slow-down message.
C35_AlwaysSlowDown ==
  /\ \A u \in UserIds : \A i \in 1..Len(accepted[u]) :
       AcceptedWithinWindow(u, i) <= USER_MAX_PER_MINUTE
  /\ (handled.tokenOk /\ handled.recent >= USER_MAX_PER_MINUTE) =>
       handled.admission = "slowdown"

\* C35 amended: of every user at most 20 requests are accepted within any
\* 60 s (a request counts for the 59999 ms after it); a request arriving
\* when 20 were accepted in the last 60 s is never accepted and never
\* recorded; it is answered with the slow-down message when its token is
\* valid, its command is not empty and the last accepted request of any
\* user is at least 500 ms old, and the slow-down message is sent in no
\* other case.
C35_UserLimit ==
  /\ [](\A u \in UserIds : \A i \in 1..Len(accepted[u]) :
         AcceptedWithinWindow(u, i) <= USER_MAX_PER_MINUTE)
  /\ [](handled.recent >= USER_MAX_PER_MINUTE =>
         handled.admission # "accepted")
  /\ [](handled.admission = "slowdown" <=>
         /\ handled.tokenOk /\ ~handled.empty /\ handled.globalOk
         /\ handled.recent >= USER_MAX_PER_MINUTE)
  /\ [][(arrivals' # arrivals /\ handled'.admission # "accepted") =>
         /\ requestHistory' = requestHistory
         /\ lastRequest' = lastRequest
         /\ accepted' = accepted]_vars

\* the twenty-first request within a minute was answered with the slow-down
\* message, and the next one, 60 s after the first, was accepted
C35_Witness ==
  /\ arrivals = 3
  /\ handled.user = BridgeUser
  /\ handled.admission = "accepted"
  /\ Len(accepted[BridgeUser]) = USER_MAX_PER_MINUTE + 1
  /\ handled.recent = USER_MAX_PER_MINUTE - 1
  /\ handled.at = StartClock + USER_MAX_PER_MINUTE * PastSpacing

(* ------------------- claims on the progress of the queue ---------------- *)
\* C36: every task added to the queue is eventually started when every
\* started task eventually settles; a task that rejects or throws releases
\* its slot like one that resolves: the step that settles a task takes the
\* first waiting task, if there is one, in its place and else lowers the
\* running counter by one; whenever a task waits, maxConcurrent tasks run.
C36_QueueLiveness ==
  /\ \A r \in Reqs : (pc[r] = "queued") ~> (pc[r] = "start")
  /\ [](queue # << >> => running = maxConcurrent)
  /\ [][\A r \in Reqs :
         (pc[r] = "start" /\ pc'[r] \in {"resolved", "rejected"}) =>
           IF queue = << >>
           THEN running' = running - 1 /\ queue' = queue
           ELSE /\ running' = running
                /\ queue' = Tail(queue)
                /\ pc'[Head(queue)] = "start"]_vars

\* the third task waited for a slot and was started when a task rejected
C36_Witness ==
  /\ waited[3]
  /\ pc[3] = "start"
  /\ running = maxConcurrent
  /\ \E r \in Reqs : pc[r] = "rejected"

(* ------------------- claims on the delivery loop ------------------------ *)
\* C37: at most one call of processQueue is active at any time, whatever
\* the interleaving of the sendMessage calls: the flag processing is set
\* exactly while one call is active, that call is awaited by one handler,
\* and whenever no call is active the message queue is empty.
C37_OneDeliveryLoop ==
  /\ loops \in {0, 1}
  /\ processing <=> loops = 1
  /\ processing <=> sendPc # "idle"
  /\ processing <=> drainer # 0
  /\ loops = 0 => messageQueue = << >>
  /\ sendPc = "idle" => sending = NoMessage

\* while the loop is POSTing a chunk of one request, another request has
\* put its chunk in the queue
C37_Witness ==
  /\ loops = 1
  /\ sendPc = "fetch"
  /\ messageQueue # << >>
  /\ sending.hook # Head(messageQueue).hook
  /\ drainer = sending.hook

\* the place of a queued message in the order of enqueueing
EnqueuedAt(m) == CHOOSE i \in 1..Len(enqueued) : enqueued[i] = m

\* how many of the enqueued chunks were taken from the queue for good
Taken == Len(enqueued) - Len(messageQueue)

\* C38: the chunks are POSTed in the order in which they were enqueued: the
\* chunks of one sendMessage call are enqueued together and in chunk order;
\* the queue is always the rest of the enqueued chunks, in order; the first
\* POST is of the first chunk enqueued, and each further POST is of the
\* chunk POSTed before it when that POST failed with a network error and
\* else of the chunk enqueued right after it.
C38_PostedInOrder ==
  /\ \A i \in 1..Len(enqueued) :
       /\ enqueued[i].part > 1 =>
            enqueued[i - 1] = [enqueued[i] EXCEPT !.part = @ - 1]
       /\ enqueued[i].part < enqueued[i].of =>
            /\ i < Len(enqueued)
            /\ enqueued[i + 1] = [enqueued[i] EXCEPT !.part = @ + 1]
       /\ \A j \in 1..Len(enqueued) : enqueued[j] = enqueued[i] => j = i
  /\ messageQueue = SubSeq(enqueued, Taken + 1, Len(enqueued))
  /\ sendPc \in {"throttle", "fetch"} => sending = enqueued[Taken]
  /\ sendPc = "retry" => sending = Head(messageQueue)
  /\ \A i \in 1..Len(posts) :
       \E j \in 1..Len(enqueued) : enqueued[j] = posts[i].msg
  /\ (Len(posts) = 1) => EnqueuedAt(posts[1].msg) = 1
  /\ (Len(posts) = 2) =>
       EnqueuedAt(posts[2].msg) =
         IF posts[1].outcome = "network" THEN EnqueuedAt(posts[1].msg)
         ELSE EnqueuedAt(posts[1].msg) + 1

\* the first chunk of a reply of two chunks is POSTed again after a network
\* failure while the second chunk and a chunk of another request wait
C38_Witness ==
  /\ Len(posts) = 2
  /\ posts[1].outcome = "network"
  /\ posts[2].msg = posts[1].msg
  /\ posts[2].msg.of = 2 /\ posts[2].msg.part = 1
  /\ Len(messageQueue) = 2
  /\ messageQueue[1] = [posts[2].msg EXCEPT !.part = 2]
  /\ messageQueue[2].hook # posts[2].msg.hook

(* ------------- claims on the session store and its files ---------------- *)
\* C39: once delete has completed for a session and no other operation of
\* the store is in flight, the session is neither in the cache nor on the
\* disk, whatever the interleaving of the delete with an update or an
\* incrementMessageCount of the same session; the reset session does not
\* reappear when the service is started again.
C39_AbsentAfterDelete ==
  (deleted[StoreSession] > 0 /\ StoreQuiet) =>
    /\ cache[StoreSession] = NoRef
    /\ disk[StoreSession] = NoFile

(* ------------- claims on the session table of the bridge ---------------- *)
\* C40: every session that get (or getOrCreate) returns has status
\* 'active', after any sequence of getOrCreate, update, touch, cleanup and
\* get with time passing between them; a session whose last activity is
\* within the timeout is counted by count().
C40_ReturnedIsActive ==
  /\ got # NoRow => got.status = "active"
  /\ (row # NoRow /\ clock - row.last_activity <= BRIDGE_SESSION_TIMEOUT_MS) =>
       BridgeCount(row) = 1

====
